---- MODULE Spec2Model ----
(***************************************************************************)
(* Day 5 of advent2023 (src/src/advent/day05.rs): the almanac parser       *)
(* Almanac::new, the point conversion convert_resource, the pipeline       *)
(* lookups location_for_seed and optimized_location_for_seed, and the two  *)
(* parts of Solver::solve.                                                 *)
(*                                                                         *)
(* u64 values are modelled with a scaled-down word: every value lies in    *)
(* 0..U64_MAX and every addition of the source goes through Add, which     *)
(* aborts (overflow checks on, the dev profile) or wraps (overflow checks  *)
(* off, the release profile).                                              *)
(***************************************************************************)
EXTENDS Integers, Sequences, FiniteSets, TLC

\* ------------------------------------------------------------------ bounds

\* The largest value of the scaled-down unsigned word standing for u64::MAX.
U64_MAX == 255

\* Values 0..MaxVal are used for the rows enumerated in the initial states.
MaxVal == 2

\* Most lines of an enumerated free-form input.
MaxLines == 3

\* The count of while-loop iterations saturates here (the loop itself may go on).
MaxIter == 5

\* ------------------------------------------------------------- basic values

\* The value an aborted (panicked) computation yields.
PANIC == 0 - 1

\* Option::None for current_source and current_dest.
None == "None"

Min(S) == CHOOSE x \in S : \A y \in S : x <= y

min(a, b) == IF a <= b THEN a ELSE b

\* a + b on the unsigned word: aborts when overflow checks are on, wraps otherwise.
Add(a, b, checks) ==
    IF a + b > U64_MAX
    THEN IF checks THEN PANIC ELSE (a + b) % (U64_MAX + 1)
    ELSE a + b

\* enum GardenResource, by its lowercase serialisation.
GardenResource ==
    {"fertilizer", "humidity", "light", "location", "seed", "soil", "temperature", "water"}

CONVERSIONS ==
    <<"seed", "soil", "fertilizer", "water", "light", "temperature", "humidity", "location">>

\* tuple_windows taken for tuples: disjoint pairs instead of overlapping ones.
tuple_windows_disjoint(s) == [i \in 1..(Len(s) \div 2) |-> <<s[2 * i - 1], s[2 * i]>>]

\* Itertools::tuple_windows on a sequence: the adjacent pairs, in order.
tuple_windows(s) == [i \in 1..(Len(s) - 1) |-> <<s[i], s[i + 1]>>]

\* tuples taken for tuple_windows: overlapping pairs instead of disjoint ones.
tuples_overlapping(s) == [i \in 1..(Len(s) - 1) |-> <<s[i], s[i + 1]>>]

\* Itertools::tuples on a sequence: consecutive disjoint pairs, a trailing odd
\* element dropped.
tuples(s) == [i \in 1..(Len(s) \div 2) |-> <<s[2 * i - 1], s[2 * i]>>]

\* contains with the end of the range included.
contains_inclusive(srange, value) == srange.start <= value /\ value <= srange.end

\* Range<u64>::contains.
contains(srange, value) == srange.start <= value /\ value < srange.end

\* ------------------------------------------------------------------- lines

(* An input line, by the shape the parser's tests distinguish:
   "blank"  the empty line;
   "seeds"  matches SEEDS_RE, nums are its whitespace-separated numerals;
   "header" matches MAP_START_RE, source and dest are the captured names;
   "row"    matches MAP_ROW_RE, nums = <<dest, source, len>>;
   "other"  matches none of them.
   A numeral is the natural number it denotes, possibly above U64_MAX. *)
Line(shape, source, dest, nums) ==
    [shape |-> shape, source |-> source, dest |-> dest, nums |-> nums]

BlankLine == Line("blank", "", "", <<>>)
SeedsLine(nums) == Line("seeds", "", "", nums)
HeaderLine(source, dest) == Line("header", source, dest, <<>>)
RowLine(d, s, l) == Line("row", "", "", <<d, s, l>>)
OtherLine == Line("other", "", "", <<>>)

\* str::parse::<u64> on a numeral: fails above u64::MAX.
parse_u64_ok(n) == n <= U64_MAX

\* TryFrom<&str> for GardenResource (strum EnumString).
try_into_ok(name) == name \in GardenResource

\* ----------------------------------------------------------------- parser

\* HashMap::new().
EmptyMaps == [k \in {} |-> <<>>]

\* maps.insert(key, vec![row]): the row replaces the table stored under key.
entry_push_overwrite(m, key, row) ==
    [k \in (DOMAIN m) \cup {key} |-> IF k = key THEN <<row>> ELSE m[k]]

\* maps.entry(key).or_default().push(row).
entry_push(m, key, row) ==
    IF key \in DOMAIN m
    THEN [m EXCEPT ![key] = Append(@, row)]
    ELSE [k \in (DOMAIN m) \cup {key} |-> IF k = key THEN <<row>> ELSE m[k]]

\* The locals of Almanac::new before the first line.
ParserStart ==
    [current_source |-> None, current_dest |-> None,
     seeds_to_plant |-> <<>>, maps |-> EmptyMaps, status |-> "ok"]

\* parse_line with a blank line leaving the active pair in place.
parse_line_blank_keeps(st, line, checks) ==
    CASE line.shape = "blank" -> st
      [] line.shape = "seeds" ->
           IF \A i \in 1..Len(line.nums) : parse_u64_ok(line.nums[i])
           THEN [st EXCEPT !.seeds_to_plant = line.nums]
           ELSE [st EXCEPT !.status = "ParseIntError"]
      [] line.shape = "header" ->
           IF try_into_ok(line.source) /\ try_into_ok(line.dest)
           THEN [st EXCEPT !.current_source = line.source, !.current_dest = line.dest]
           ELSE [st EXCEPT !.status = "VariantNotFound"]
      [] line.shape = "row" ->
           IF st.current_source = None \/ st.current_dest = None
           THEN [st EXCEPT !.status = "no map header"]
           ELSE IF \E i \in 1..3 : ~parse_u64_ok(line.nums[i])
           THEN [st EXCEPT !.status = "ParseIntError"]
           ELSE IF Add(line.nums[2], line.nums[3], checks) = PANIC
           THEN [st EXCEPT !.status = "panic"]
           ELSE [st EXCEPT !.maps =
                   entry_push(@, <<st.current_source, st.current_dest>>,
                              [start |-> line.nums[2],
                               end |-> Add(line.nums[2], line.nums[3], checks),
                               dstart |-> line.nums[1]])]
      [] OTHER -> [st EXCEPT !.status = "Unexpected line in input"]

(* One iteration of the line loop of Almanac::new on parser state st.
   status: "ok" to go on, an error name when the function returns Err,
   "panic" when s_start + len overflows with overflow checks on. *)
parse_line(st, line, checks) ==
    CASE line.shape = "blank" ->
           [st EXCEPT !.current_source = None, !.current_dest = None]
      [] line.shape = "seeds" ->
           IF \A i \in 1..Len(line.nums) : parse_u64_ok(line.nums[i])
           THEN [st EXCEPT !.seeds_to_plant = line.nums]
           ELSE [st EXCEPT !.status = "ParseIntError"]
      [] line.shape = "header" ->
           IF ~try_into_ok(line.source)
           THEN [st EXCEPT !.status = "VariantNotFound"]
           ELSE IF ~try_into_ok(line.dest)
           THEN [st EXCEPT !.current_source = line.source,
                           !.status = "VariantNotFound"]
           ELSE [st EXCEPT !.current_source = line.source,
                           !.current_dest = line.dest]
      [] line.shape = "row" ->
           IF st.current_source = None \/ st.current_dest = None
           THEN [st EXCEPT !.status = "no map header"]
           ELSE IF \E i \in 1..3 : ~parse_u64_ok(line.nums[i])
           THEN [st EXCEPT !.status = "ParseIntError"]
           ELSE LET d_start == line.nums[1]
                    s_start == line.nums[2]
                    len     == line.nums[3]
                    s_end   == Add(s_start, len, checks)
                IN  IF s_end = PANIC
                    THEN [st EXCEPT !.status = "panic"]
                    ELSE [st EXCEPT !.maps =
                            entry_push(@, <<st.current_source, st.current_dest>>,
                                       [start |-> s_start, end |-> s_end,
                                        dstart |-> d_start])]
      [] OTHER -> [st EXCEPT !.status = "Unexpected line in input"]

RECURSIVE parse_from(_, _, _, _)
parse_from(st, input, i, checks) ==
    IF i > Len(input) \/ st.status # "ok"
    THEN st
    ELSE parse_from(parse_line(st, input[i], checks), input, i + 1, checks)

\* Almanac::new(input) as a whole: the parser state after the last line read.
AlmanacNew(input, checks) == parse_from(ParserStart, input, 1, checks)

\* ------------------------------------------------------------- conversion

\* first_match that keeps scanning and ends on the last range containing value.
last_match(ranges, value) ==
    LET hits == {i \in 1..Len(ranges) : contains(ranges[i], value)}
    IN  IF hits = {} THEN 0 ELSE CHOOSE x \in hits : \A y \in hits : y <= x

\* The index of the first element of ranges containing value, 0 when none does:
\* the scan `for (srange, dstart) in ranges.iter() { if srange.contains(&value)`.
first_match(ranges, value) ==
    LET hits == {i \in 1..Len(ranges) : contains(ranges[i], value)}
    IN  IF hits = {} THEN 0 ELSE Min(hits)

\* convert_resource without the subtraction of the range's start.
convert_resource_no_offset(m, source, dest, value, checks) ==
    IF <<source, dest>> \in DOMAIN m
    THEN LET ranges == m[<<source, dest>>]
             i      == first_match(ranges, value)
         IN  IF i # 0 THEN Add(ranges[i].dstart, value, checks) ELSE value
    ELSE value

\* Almanac::convert_resource.
convert_resource(m, source, dest, value, checks) ==
    IF <<source, dest>> \in DOMAIN m
    THEN LET ranges == m[<<source, dest>>]
             i      == first_match(ranges, value)
         IN  IF i # 0
             THEN LET offset == value - ranges[i].start
                  IN  Add(ranges[i].dstart, offset, checks)
             ELSE value
    ELSE value

(* The convert_resource calls location_for_seed makes, in order: its fold over
   the windows from window i on, each call recorded with its arguments and
   result.  A call that aborts is the last one. *)
RECURSIVE fold_calls(_, _, _, _, _)
fold_calls(m, windows, i, resource, checks) ==
    IF i > Len(windows)
    THEN <<>>
    ELSE LET source == windows[i][1]
             dest   == windows[i][2]
             result == convert_resource(m, source, dest, resource, checks)
             call   == [source |-> source, dest |-> dest,
                        value |-> resource, result |-> result]
         IN  IF result = PANIC
             THEN <<call>>
             ELSE <<call>> \o fold_calls(m, windows, i + 1, result, checks)

\* Almanac::location_for_seed: the result of the last call of its fold.
location_for_seed(m, seed, checks) ==
    LET calls == fold_calls(m, tuple_windows(CONVERSIONS), 1, seed, checks)
    IN  IF calls = <<>> THEN seed ELSE calls[Len(calls)].result

\* The result of an aborted optimized_location_for_seed.
Aborted == [value |-> PANIC, step |-> PANIC]

(* The closure body of optimized_location_for_seed for one (source, dest)
   window, on the running (value, step).  Indexing self.maps with a key it does
   not hold aborts. *)
optimized_stage(m, source, dest, acc, checks) ==
    IF <<source, dest>> \notin DOMAIN m
    THEN Aborted
    ELSE LET range_maps == m[<<source, dest>>]
             i      == first_match(range_maps, acc.value)
             step1  == IF i # 0
                       THEN min(acc.step, range_maps[i].end - acc.value)
                       ELSE acc.step
             value1 == IF i # 0
                       THEN Add(range_maps[i].dstart,
                                acc.value - range_maps[i].start, checks)
                       ELSE acc.value
             ahead  == {range_maps[j].start - value1 :
                          j \in {k \in 1..Len(range_maps) : range_maps[k].start > value1}}
         IN  IF value1 = PANIC
             THEN Aborted
             ELSE [value |-> value1,
                   step  |-> IF ahead = {} THEN step1 ELSE min(step1, Min(ahead))]

RECURSIVE optimized_from(_, _, _, _, _)
optimized_from(m, windows, i, acc, checks) ==
    IF i > Len(windows) \/ acc = Aborted
    THEN acc
    ELSE optimized_from(m, windows, i + 1,
                        optimized_stage(m, windows[i][1], windows[i][2], acc, checks),
                        checks)

\* Almanac::optimized_location_for_seed: (location, step), or Aborted.
optimized_location_for_seed(m, seed, checks) ==
    optimized_from(m, tuple_windows(CONVERSIONS), 1,
                   [value |-> seed, step |-> U64_MAX], checks)

\* ------------------------------------------------------------------ state

VARIABLES
    input,            \* the lines read from the input file
    overflow_checks,  \* whether the build aborts on arithmetic overflow
    pc,               \* where Solver::solve is: parse, part1, part2, done, err, panic
    lines_read,       \* lines of input consumed by the loop of Almanac::new
    current_source,   \* Almanac::new's local
    current_dest,     \* Almanac::new's local
    seeds_to_plant,   \* Almanac field
    maps,             \* Almanac field
    err,              \* the error solve returns, "" when none
    seed_idx,         \* part 1: index of the next seed the map closure takes
    calls,            \* part 1: the convert_resource calls of the last location_for_seed
    locations,        \* part 1: the locations computed so far
    part1_answer,     \* part 1: the printed minimum, PANIC before it is printed
    lowest_location,  \* part 2: solve's local
    range_idx,        \* part 2: index of the current (seed_start, length) tuple
    seed,             \* part 2: the cursor of the while loop
    iterations,       \* part 2: iterations of the while loop in the current tuple
    last_opt          \* part 2: argument and result of the last optimized call

parser_vars == <<lines_read, current_source, current_dest, seeds_to_plant, maps>>
part1_vars == <<seed_idx, calls, locations, part1_answer>>
part2_vars == <<lowest_location, range_idx, seed, iterations, last_opt>>
vars == <<input, overflow_checks, pc, err, parser_vars, part1_vars, part2_vars>>

\* ---- main.rs and mod.rs

VARIABLES
    day,         \* main's local: the --day option, NoDay or Some(d)
    main_pc,     \* where main is: main, solver, solved, returned
    solver,      \* advent::solve's local: the solver constructed, None before
    input_path,  \* the path advent::solve passes to solver.solve, "" before
    files_read,  \* the paths opened so far
    result,      \* what advent::solve returned: "Ok" or the error's message, "" before
    stdout       \* the lines main has printed

main_vars == <<day, main_pc, solver, input_path, files_read, result, stdout>>

\* ---- day08.rs

VARIABLES
    map,            \* DesertMap field: node name -> <<left, right>>
    steps,          \* DesertMap field: the instructions, "L" or "R" each
    method,         \* the DesertMap method called: its name and its target argument
    current_node,   \* local of both methods
    current_step,   \* local of both methods: index into steps, from 0
    total_steps,    \* steps_to's total_steps; parallel_steps_to_z's local `steps`
    pending,        \* parallel_steps_to_z: starting nodes the for loop has yet to take
    cycle_lengths,  \* parallel_steps_to_z's local
    walk_pc,        \* idle, steps_to, for, loop, returned, panic
    returned        \* the value the method returned, PANIC before

day08_vars ==
    <<map, steps, method, current_node, current_step, total_steps, pending,
      cycle_lengths, walk_pc, returned>>

\* ---- day07.rs

VARIABLES
    hands,         \* Solver::solve's local: the (CamelHand, bid) pairs of the input
    sorted_hands,  \* total_winnings's local `sorted`
    winnings,      \* the totals printed so far
    wild_idx,      \* index of the next hand of the jokers_wild loop
    camel_pc       \* idle, sort, fold, wild, done

day07_vars == <<hands, sorted_hands, winnings, wild_idx, camel_pc>>

\* ---- day01.rs

VARIABLES
    calib_s,                      \* get_calibration_value's argument s
    include_spelled_out_numbers,  \* get_calibration_value's argument
    calib_i,                      \* get_calibration_value's loop variable i
    digit1,                       \* local of get_calibration_value
    digit2,                       \* local of get_calibration_value
    calibration,                  \* the value returned, PANIC before
    calib_pc                      \* idle, loop, returned

day01_vars ==
    <<calib_s, include_spelled_out_numbers, calib_i, digit1, digit2, calibration, calib_pc>>

\* ---- day04.rs

VARIABLES
    card_vec,  \* propagate_wins's argument cards: the Card structs, in table order
    prop_i,    \* propagate_wins's loop variable i, from 0
    prop_j,    \* propagate_wins's loop variable j
    prop_end,  \* the end of the range 1..=win_count, computed when the inner loop starts
    prop_pc    \* idle, for_i, for_j, returned, panic

day04_vars == <<card_vec, prop_i, prop_j, prop_end, prop_pc>>

\* ---- day03.rs

VARIABLES
    data,            \* EngineSchematic::new's argument lines, the field data afterwards
    symbols,         \* EngineSchematic field: (row, column) positions, from 0
    numbers,         \* EngineSchematic field: (row, column, length, value) tuples
    current_number,  \* local of EngineSchematic::new: NoNumber or <<tuple>>
    scan_row,        \* EngineSchematic::new's loop variable row
    scan_col,        \* EngineSchematic::new's loop variable col
    part_numbers,    \* what get_part_numbers returned, <<>> before
    engine_pc        \* idle, scan, built, parts

day03_vars ==
    <<data, symbols, numbers, current_number, scan_row, scan_col, part_numbers, engine_pc>>

\* ---- what each program leaves alone

\* The variables of the programs other than the day-5 solver and main.
elsewhere_vars == <<day08_vars, day07_vars, day01_vars, day04_vars, day03_vars>>

\* A step of the day-5 solver changes nothing outside it.
OutsideDay05 == UNCHANGED <<main_vars, elsewhere_vars>>

\* A step of main or of advent::solve changes nothing outside the dispatcher.
OutsideMain == UNCHANGED <<vars, elsewhere_vars>>

\* A step of a DesertMap method changes nothing outside day 8.
OutsideDay08 ==
    UNCHANGED <<vars, main_vars, day07_vars, day01_vars, day04_vars, day03_vars>>

\* A step of the day-7 solver changes nothing outside day 7.
OutsideDay07 ==
    UNCHANGED <<vars, main_vars, day08_vars, day01_vars, day04_vars, day03_vars>>

\* A step of get_calibration_value changes nothing outside day 1.
OutsideDay01 ==
    UNCHANGED <<vars, main_vars, day08_vars, day07_vars, day04_vars, day03_vars>>

\* A step of propagate_wins changes nothing outside day 4.
OutsideDay04 ==
    UNCHANGED <<vars, main_vars, day08_vars, day07_vars, day01_vars, day03_vars>>

\* A step of EngineSchematic changes nothing outside day 3.
OutsideDay03 ==
    UNCHANGED <<vars, main_vars, day08_vars, day07_vars, day01_vars, day04_vars>>

\* No optimized_location_for_seed call made yet.
NoOpt == [seed |-> PANIC, location |-> PANIC, step |-> PANIC]

\* The state of solve's locals before either part has run.
SolveStart ==
    /\ seed_idx = 1
    /\ calls = <<>>
    /\ locations = <<>>
    /\ part1_answer = PANIC
    /\ lowest_location = U64_MAX
    /\ range_idx = 1
    /\ seed = 0
    /\ iterations = 0
    /\ last_opt = NoOpt

\* ---------------------------------------------------------------- actions

\* One iteration of `for line in input.iter()` in Almanac::new.
ReadLine ==
    /\ pc = "parse"
    /\ lines_read < Len(input)
    /\ LET st == parse_line([current_source |-> current_source,
                             current_dest |-> current_dest,
                             seeds_to_plant |-> seeds_to_plant,
                             maps |-> maps, status |-> "ok"],
                            input[lines_read + 1], overflow_checks)
       IN  /\ lines_read' = lines_read + 1
           /\ current_source' = st.current_source
           /\ current_dest' = st.current_dest
           /\ seeds_to_plant' = st.seeds_to_plant
           /\ maps' = st.maps
           /\ pc' = IF st.status = "ok" THEN "parse"
                    ELSE IF st.status = "panic" THEN "panic" ELSE "err"
           /\ err' = IF st.status \in {"ok", "panic"} THEN "" ELSE st.status
    /\ UNCHANGED <<input, overflow_checks, part1_vars, part2_vars>>
    /\ OutsideDay05

\* Almanac::new returns Ok(Almanac) after the last line; solve goes on to part 1.
AlmanacBuilt ==
    /\ pc = "parse"
    /\ lines_read = Len(input)
    /\ pc' = "part1"
    /\ UNCHANGED <<input, overflow_checks, err, parser_vars, part1_vars, part2_vars>>
    /\ OutsideDay05

\* Part 1: the closure |&s| almanac.location_for_seed(s) on the next seed.
LocateSeed ==
    /\ pc = "part1"
    /\ seed_idx <= Len(seeds_to_plant)
    /\ LET s == seeds_to_plant[seed_idx]
           location == location_for_seed(maps, s, overflow_checks)
       IN  /\ calls' = fold_calls(maps, tuple_windows(CONVERSIONS), 1, s, overflow_checks)
           /\ seed_idx' = seed_idx + 1
           /\ IF location = PANIC
              THEN pc' = "panic" /\ locations' = locations
              ELSE pc' = "part1" /\ locations' = Append(locations, location)
    /\ UNCHANGED <<input, overflow_checks, err, parser_vars, part1_answer, part2_vars>>
    /\ OutsideDay05

\* The first (seed_start, length) tuple's start, 0 when there is no tuple.
range_start(k) ==
    IF k <= Len(tuples(seeds_to_plant)) THEN tuples(seeds_to_plant)[k][1] ELSE 0

\* Part 1 ends: .min().unwrap() is printed; part 2 starts on the first tuple.
PartOneDone ==
    /\ pc = "part1"
    /\ seed_idx > Len(seeds_to_plant)
    /\ IF locations = <<>>
       THEN /\ pc' = "panic"
            /\ UNCHANGED <<part1_answer, seed>>
       ELSE /\ pc' = "part2"
            /\ part1_answer' = Min({locations[i] : i \in 1..Len(locations)})
            /\ seed' = range_start(1)
    /\ UNCHANGED <<input, overflow_checks, err, parser_vars, seed_idx, calls, locations,
                   lowest_location, range_idx, iterations, last_opt>>
    /\ OutsideDay05

\* seed_start + length of the current tuple, as the while condition computes it.
range_end ==
    LET t == tuples(seeds_to_plant)[range_idx]
    IN  Add(t[1], t[2], overflow_checks)

\* Part 2: one iteration of `while seed < seed_start + length`.
SearchStep ==
    /\ pc = "part2"
    /\ range_idx <= Len(tuples(seeds_to_plant))
    /\ range_end # PANIC
    /\ seed < range_end
    /\ LET res  == optimized_location_for_seed(maps, seed, overflow_checks)
           next == IF res = Aborted THEN PANIC ELSE Add(seed, res.step, overflow_checks)
       IN  IF next = PANIC
           THEN /\ pc' = "panic"
                /\ last_opt' = [seed |-> seed, location |-> res.value, step |-> res.step]
                /\ lowest_location' = IF res = Aborted THEN lowest_location
                                      ELSE min(lowest_location, res.value)
                /\ UNCHANGED <<seed, iterations>>
           ELSE /\ pc' = "part2"
                /\ last_opt' = [seed |-> seed, location |-> res.value, step |-> res.step]
                /\ lowest_location' = min(lowest_location, res.value)
                /\ seed' = next
                /\ iterations' = min(iterations + 1, MaxIter)
    /\ UNCHANGED <<input, overflow_checks, err, parser_vars, part1_vars, range_idx>>
    /\ OutsideDay05

\* Part 2: the while condition is not true: the for loop takes the next tuple,
\* or the condition's own addition aborts.
RangeDone ==
    /\ pc = "part2"
    /\ range_idx <= Len(tuples(seeds_to_plant))
    /\ ~(range_end # PANIC /\ seed < range_end)
    /\ IF range_end = PANIC
       THEN /\ pc' = "panic"
            /\ UNCHANGED <<range_idx, seed, iterations>>
       ELSE /\ pc' = "part2"
            /\ range_idx' = range_idx + 1
            /\ seed' = range_start(range_idx + 1)
            /\ iterations' = 0
    /\ UNCHANGED <<input, overflow_checks, err, parser_vars, part1_vars,
                   lowest_location, last_opt>>
    /\ OutsideDay05

\* Part 2 ends: the for loop is exhausted, the answer is printed, solve returns Ok.
Finish ==
    /\ pc = "part2"
    /\ range_idx > Len(tuples(seeds_to_plant))
    /\ pc' = "done"
    /\ UNCHANGED <<input, overflow_checks, err, parser_vars, part1_vars, part2_vars>>
    /\ OutsideDay05

\* Part 1 of solve.
PartOne == LocateSeed \/ PartOneDone

\* Part 2 of solve.
PartTwo == SearchStep \/ RangeDone \/ Finish

Solve == PartOne \/ PartTwo

Next == ReadLine \/ AlmanacBuilt \/ Solve

\* ----------------------------------------------------------------- inputs

\* tests::EX_IN.
EX_IN ==
    << SeedsLine(<<79, 14, 55, 13>>),
       BlankLine,
       HeaderLine("seed", "soil"),
       RowLine(50, 98, 2),
       RowLine(52, 50, 48),
       BlankLine,
       HeaderLine("soil", "fertilizer"),
       RowLine(0, 15, 37),
       RowLine(37, 52, 2),
       RowLine(39, 0, 15),
       BlankLine,
       HeaderLine("fertilizer", "water"),
       RowLine(49, 53, 8),
       RowLine(0, 11, 42),
       RowLine(42, 0, 7),
       RowLine(57, 7, 4),
       BlankLine,
       HeaderLine("water", "light"),
       RowLine(88, 18, 7),
       RowLine(18, 25, 70),
       BlankLine,
       HeaderLine("light", "temperature"),
       RowLine(45, 77, 23),
       RowLine(81, 45, 19),
       RowLine(68, 64, 13),
       BlankLine,
       HeaderLine("temperature", "humidity"),
       RowLine(0, 69, 1),
       RowLine(1, 0, 69),
       BlankLine,
       HeaderLine("humidity", "location"),
       RowLine(60, 56, 37),
       RowLine(56, 93, 4) >>

\* The lines the free-form inputs are made of: every shape, with the numerals
\* and names on both sides of each test the parser makes.
LineAlphabet ==
    { BlankLine,
      SeedsLine(<<1, 2>>),
      SeedsLine(<<U64_MAX + 1>>),
      HeaderLine("seed", "soil"),
      HeaderLine("humidity", "location"),
      HeaderLine("seed", "sand"),
      HeaderLine("sand", "soil"),
      RowLine(0, 1, 1),
      RowLine(0, U64_MAX, 1),
      RowLine(0, 0, U64_MAX + 1),
      OtherLine }

RECURSIVE SeqsUpTo(_, _)
SeqsUpTo(S, n) ==
    IF n = 0
    THEN {<<>>}
    ELSE LET shorter == SeqsUpTo(S, n - 1)
         IN  shorter \cup {Append(q, x) : q \in shorter, x \in S}

\* An input whose seed-to-soil header occurs twice, another section between.
REPEATED_HEADER_IN ==
    << SeedsLine(<<1, 2>>),
       BlankLine,
       HeaderLine("seed", "soil"),
       RowLine(5, 1, 1),
       BlankLine,
       HeaderLine("humidity", "location"),
       RowLine(6, 6, 2),
       BlankLine,
       HeaderLine("seed", "soil"),
       RowLine(7, 2, 1),
       RowLine(0, 0, 1) >>

\* The inputs of Spec: every sequence of at most MaxLines lines, the fixture and
\* the input with the repeated header.
FreeInputs == SeqsUpTo(LineAlphabet, MaxLines) \cup {EX_IN, REPEATED_HEADER_IN}

\* A section: the header of pipeline window k, then the rows of table.
Section(k, table) ==
    <<HeaderLine(CONVERSIONS[k], CONVERSIONS[k + 1])>> \o table

\* The row "0 0 0": an empty source interval, so a table that converts nothing.
NullRow == RowLine(0, 0, 0)

\* The rows of the enumerated tables of SpecConvert: small source intervals,
\* the empty one included, and sources and destinations at the top of the word.
ConvRows ==
    { RowLine(d, s, l) : d \in {0, MaxVal + 1, U64_MAX},
                         s \in (0..MaxVal) \cup {U64_MAX}, l \in 0..MaxVal }

\* Tables of no, one or two rows, overlapping ones included.
ConvTables ==
    {<<>>} \cup {<<r>> : r \in ConvRows} \cup {<<r1, r2>> : r1 \in ConvRows, r2 \in ConvRows}

\* The inputs of SpecConvert: one seed and a seed-to-soil section from ConvTables.
ConvInputs ==
    { <<SeedsLine(<<v>>)>> \o Section(1, t)
      : v \in (0..(2 * MaxVal)) \cup {U64_MAX}, t \in ConvTables }

\* The rows of the enumerated tables of SpecSearch.
SearchRows ==
    { RowLine(d, s, l) : d \in {0, MaxVal}, s \in 0..MaxVal, l \in {1, MaxVal} }
        \cup {NullRow}

\* Two disjoint intervals with a gap between them, in both declaration orders.
GapTables ==
    { <<RowLine(MaxVal, 0, 1), RowLine(0, MaxVal, 1)>>,
      <<RowLine(0, MaxVal, 1), RowLine(MaxVal, 0, 1)>> }

\* A row whose interval starts after every seed of every enumerated range.
FarRow == RowLine(0, 2 * MaxVal + 2, 1)

\* The inputs of SpecSearch: one seed range, and all seven tables: any one-row
\* table or a GapTable first, any one-row table second, and one table shared by
\* the other five.
SearchInputs ==
    { <<SeedsLine(<<start, length>>)>> \o Section(1, t1) \o Section(2, <<r2>>)
        \o Section(3, <<r3>>) \o Section(4, <<r3>>) \o Section(5, <<r3>>)
        \o Section(6, <<r3>>) \o Section(7, <<r3>>)
      : start \in 0..MaxVal, length \in {1, MaxVal + 1},
        t1 \in {<<r>> : r \in SearchRows} \cup GapTables,
        r2 \in SearchRows, r3 \in {NullRow, FarRow} }

\* ------------------------------------------- dispatcher (main.rs, mod.rs)

\* The largest day number given on the command line in the enumerated runs.
MaxDay == 11

\* Option<u32>: None, and Some(d).
NoDay == <<>>
Some(d) == <<d>>

\* The decimal numeral of a digit.
Digit(d) == <<"0", "1", "2", "3", "4", "5", "6", "7", "8", "9">>[d + 1]

\* format!("{}", n) of an unsigned integer.
RECURSIVE to_string(_)
to_string(n) == IF n < 10 THEN Digit(n) ELSE to_string(n \div 10) \o Digit(n % 10)

\* format!("{:02}", n): at least two digits, zero-padded on the left.
pad02(n) == IF n < 10 THEN "0" \o Digit(n) ELSE to_string(n)

\* The match arms of advent::solve: the solver a day constructs, None for `_`.
solver_for(d) ==
    CASE d = 1 -> "day01::Solver"
      [] d = 2 -> "day02::Solver"
      [] d = 3 -> "day03::Solver"
      [] d = 4 -> "day04::Solver"
      [] d = 5 -> "day05::Solver"
      [] d = 6 -> "day06::Solver"
      [] OTHER -> None

\* The path with the day number not padded.
input_path_unpadded(d) == "inputs/day" \o to_string(d) \o ".txt"

\* format!("inputs/day{:02}.txt", day).
input_path_for(d) == "inputs/day" \o pad02(d) \o ".txt"

\* format_err!("Day {} not implemented.", day).
not_implemented(d) == "Day " \o to_string(d) \o " not implemented."

\* main before its match, with the option parsed.
MainStart ==
    /\ main_pc = "main"
    /\ solver = None
    /\ input_path = ""
    /\ files_read = <<>>
    /\ result = ""
    /\ stdout = <<>>

\* main.rs line 23: no --day option.
MainNoDay ==
    /\ main_pc = "main"
    /\ day = NoDay
    /\ stdout' = Append(stdout, "--day is required")
    /\ main_pc' = "returned"
    /\ UNCHANGED <<day, solver, input_path, files_read, result>>
    /\ OutsideMain

\* advent::solve, the `_` arm: the error is returned at once.
SolveNotImplemented ==
    /\ main_pc = "main"
    /\ day # NoDay
    /\ solver_for(day[1]) = None
    /\ result' = not_implemented(day[1])
    /\ main_pc' = "solved"
    /\ UNCHANGED <<day, solver, input_path, files_read, stdout>>
    /\ OutsideMain

\* advent::solve, a numbered arm: the solver is built and solve is called on the path.
SolveRegistered ==
    /\ main_pc = "main"
    /\ day # NoDay
    /\ solver_for(day[1]) # None
    /\ solver' = solver_for(day[1])
    /\ input_path' = input_path_for(day[1])
    /\ main_pc' = "solver"
    /\ UNCHANGED <<day, files_read, result, stdout>>
    /\ OutsideMain

\* The solver's File::open(input_path) fails: solve returns the io error.
OpenFails ==
    /\ main_pc = "solver"
    /\ files_read = <<>>
    /\ files_read' = Append(files_read, input_path)
    /\ result' = "No such file or directory (os error 2)"
    /\ main_pc' = "solved"
    /\ UNCHANGED <<day, solver, input_path, stdout>>
    /\ OutsideMain

\* day05::Solver::solve line 17: the file's lines are read.
Day05ReadFile ==
    /\ main_pc = "solver"
    /\ solver = "day05::Solver"
    /\ files_read = <<>>
    /\ files_read' = Append(files_read, input_path)
    /\ pc = "idle"
    /\ pc' = "parse"
    /\ input' \in FreeInputs
    /\ UNCHANGED <<day, main_pc, solver, input_path, result, stdout>>
    /\ UNCHANGED <<overflow_checks, err, parser_vars, part1_vars, part2_vars>>
    /\ UNCHANGED elsewhere_vars

\* day05::Solver::solve returns Ok (line 45) or the error of Almanac::new (line 18).
Day05Returns ==
    /\ main_pc = "solver"
    /\ solver = "day05::Solver"
    /\ pc \in {"done", "err"}
    /\ result' = IF pc = "done" THEN "Ok" ELSE err
    /\ main_pc' = "solved"
    /\ UNCHANGED <<day, solver, input_path, files_read, stdout>>
    /\ OutsideMain

\* The solve of another registered day, as far as the dispatcher sees it: the
\* file is read and solve returns Ok or an error.
OtherSolverRuns ==
    /\ main_pc = "solver"
    /\ solver # "day05::Solver"
    /\ files_read = <<>>
    /\ files_read' = Append(files_read, input_path)
    /\ result' \in {"Ok", "solver error"}
    /\ main_pc' = "solved"
    /\ UNCHANGED <<day, solver, input_path, stdout>>
    /\ OutsideMain

\* main.rs lines 19-22: Ok prints nothing, Err(e) prints "error: {e}".
MainPrints ==
    /\ main_pc = "solved"
    /\ stdout' = IF result = "Ok" THEN stdout ELSE Append(stdout, "error: " \o result)
    /\ main_pc' = "returned"
    /\ UNCHANGED <<day, solver, input_path, files_read, result>>
    /\ OutsideMain

\* The steps of main and advent::solve outside the day-5 solver.
Dispatch ==
    \/ MainNoDay
    \/ SolveNotImplemented
    \/ SolveRegistered
    \/ OpenFails
    \/ OtherSolverRuns
    \/ Day05Returns
    \/ MainPrints

\* main and everything it calls.
NextMain ==
    \/ Dispatch
    \/ Day05ReadFile
    \/ Next

\* The dispatcher's variables while a solver is driven directly, as the tests do.
MainIdle ==
    /\ day = NoDay
    /\ main_pc = "returned"
    /\ solver = None
    /\ input_path = ""
    /\ files_read = <<>>
    /\ result = ""
    /\ stdout = <<>>

\* The day-5 solver before main has called it.
Day05Idle ==
    /\ input = <<>>
    /\ pc = "idle"
    /\ err = ""
    /\ lines_read = 0
    /\ current_source = ParserStart.current_source
    /\ current_dest = ParserStart.current_dest
    /\ seeds_to_plant = ParserStart.seeds_to_plant
    /\ maps = ParserStart.maps
    /\ SolveStart

\* main starts with the option parsed: no day, or a day from 0 to MaxDay.
InitMain ==
    /\ day \in {NoDay} \cup {Some(d) : d \in 0..MaxDay}
    /\ MainStart
    /\ overflow_checks \in BOOLEAN
    /\ Day05Idle

\* ------------------------------------------------------- day 8 (day08.rs)

\* The while loop of steps_to and the loop of parallel_steps_to_z are followed
\* for at most this many iterations.
MaxWalk == 9

\* str::ends_with with a one-character suffix.
ends_with(name, c) == Len(name) >= 1 /\ SubSeq(name, Len(name), Len(name)) = c

RECURSIVE gcd(_, _)
gcd(a, b) == IF b = 0 THEN a ELSE gcd(b, a % b)

\* num::integer::lcm.
lcm(a, b) == IF a = 0 \/ b = 0 THEN 0 ELSE (a \div gcd(a, b)) * b

\* cycle_lengths.iter().fold(1, |result, &cycle| lcm(result, cycle)), from index i.
RECURSIVE fold_lcm(_, _, _)
fold_lcm(lengths, i, acc) ==
    IF i > Len(lengths) THEN acc ELSE fold_lcm(lengths, i + 1, lcm(acc, lengths[i]))

\* Whether `self.map[current_node]` and `self.steps[current_step]` both succeed.
can_step == current_node \in DOMAIN map /\ current_step < Len(steps)

\* The node the match on self.steps[current_step] selects.
next_node ==
    IF steps[current_step + 1] = "L" THEN map[current_node][1] ELSE map[current_node][2]

\* The index update without the wrap to the first instruction.
next_step_no_wrap == min(current_step + 1, Len(steps) - 1)

\* (current_step + 1) % self.steps.len().
next_step == (current_step + 1) % Len(steps)

\* steps_to: one iteration of `while current_node != target`.
StepsToIter ==
    /\ walk_pc = "steps_to"
    /\ current_node # method.target
    /\ total_steps < MaxWalk
    /\ IF can_step
       THEN /\ current_node' = next_node
            /\ current_step' = next_step
            /\ total_steps' = total_steps + 1
            /\ walk_pc' = "steps_to"
       ELSE /\ walk_pc' = "panic"
            /\ UNCHANGED <<current_node, current_step, total_steps>>
    /\ UNCHANGED <<map, steps, method, pending, cycle_lengths, returned>>
    /\ OutsideDay08

\* steps_to: the loop condition fails and total_steps is returned.
StepsToReturn ==
    /\ walk_pc = "steps_to"
    /\ current_node = method.target
    /\ returned' = total_steps
    /\ walk_pc' = "returned"
    /\ UNCHANGED <<map, steps, method, current_node, current_step, total_steps,
                   pending, cycle_lengths>>
    /\ OutsideDay08

\* parallel_steps_to_z: the for loop takes its next starting node, in the
\* HashMap's key order, which is any order.
ParallelFor ==
    /\ walk_pc = "for"
    /\ \E starting_node \in pending :
           /\ current_node' = starting_node
           /\ pending' = pending \ {starting_node}
    /\ current_step' = 0
    /\ total_steps' = 0
    /\ walk_pc' = "loop"
    /\ UNCHANGED <<map, steps, method, cycle_lengths, returned>>
    /\ OutsideDay08

\* parallel_steps_to_z: one iteration of the inner loop.
ParallelIter ==
    /\ walk_pc = "loop"
    /\ total_steps < MaxWalk
    /\ IF can_step
       THEN /\ current_node' = next_node
            /\ current_step' = next_step
            /\ total_steps' = total_steps + 1
            /\ IF ends_with(next_node, "Z")
               THEN /\ cycle_lengths' = Append(cycle_lengths, total_steps + 1)
                    /\ walk_pc' = "for"
               ELSE /\ cycle_lengths' = cycle_lengths
                    /\ walk_pc' = "loop"
       ELSE /\ walk_pc' = "panic"
            /\ UNCHANGED <<current_node, current_step, total_steps, cycle_lengths>>
    /\ UNCHANGED <<map, steps, method, pending, returned>>
    /\ OutsideDay08

\* parallel_steps_to_z: the for loop is over, the fold of lcm is returned.
ParallelReturn ==
    /\ walk_pc = "for"
    /\ pending = {}
    /\ returned' = fold_lcm(cycle_lengths, 1, 1)
    /\ walk_pc' = "returned"
    /\ UNCHANGED <<map, steps, method, current_node, current_step, total_steps,
                   pending, cycle_lengths>>
    /\ OutsideDay08

NextDesert ==
    \/ StepsToIter
    \/ StepsToReturn
    \/ ParallelFor
    \/ ParallelIter
    \/ ParallelReturn

\* A DesertMap from its element lines: each <<start, left, right>>.
Elements(lines) ==
    [n \in {lines[i][1] : i \in 1..Len(lines)} |->
        LET i == CHOOSE i \in 1..Len(lines) :
                     /\ lines[i][1] = n
                     /\ \A j \in 1..Len(lines) : lines[j][1] = n => j <= i
        IN  <<lines[i][2], lines[i][3]>>]

\* tests::EX1_IN, EX2_IN and EX3_IN, as DesertMap::new builds them.
EX1_IN ==
    [steps |-> <<"R", "L">>,
     map |-> Elements(<< <<"AAA", "BBB", "CCC">>, <<"BBB", "DDD", "EEE">>,
                         <<"CCC", "ZZZ", "GGG">>, <<"DDD", "DDD", "DDD">>,
                         <<"EEE", "EEE", "EEE">>, <<"GGG", "GGG", "GGG">>,
                         <<"ZZZ", "ZZZ", "ZZZ">> >>)]

EX2_IN ==
    [steps |-> <<"L", "L", "R">>,
     map |-> Elements(<< <<"AAA", "BBB", "BBB">>, <<"BBB", "AAA", "ZZZ">>,
                         <<"ZZZ", "ZZZ", "ZZZ">> >>)]

EX3_IN ==
    [steps |-> <<"L", "R">>,
     map |-> Elements(<< <<"11A", "11B", "XXX">>, <<"11B", "XXX", "11Z">>,
                         <<"11Z", "11B", "XXX">>, <<"22A", "22B", "XXX">>,
                         <<"22B", "22C", "22C">>, <<"22C", "22Z", "22Z">>,
                         <<"22Z", "22B", "22B">>, <<"XXX", "XXX", "XXX">> >>)]

\* Every map over three nodes, under two instruction lists.
SmallNodes == {"AAA", "BBB", "ZZZ"}

SmallDeserts ==
    { [steps |-> s, map |-> m] :
        s \in {<<"L", "R">>, <<"L", "L", "R">>},
        m \in [SmallNodes -> SmallNodes \X SmallNodes] }

\* Every map over five nodes, two of them starting and two of them ending
\* nodes, in which both ways out of a node lead to the same node.
ForkNodes == {"AAA", "BBA", "XXX", "ZZZ", "BBZ"}

ForkDeserts ==
    { [steps |-> <<"R">>, map |-> [n \in ForkNodes |-> <<f[n], f[n]>>]] :
        f \in [ForkNodes -> ForkNodes] }

\* A map with no instruction: the first line of the input was empty.
NoSteps == [steps |-> <<>>, map |-> EX2_IN.map]

\* The calls of the two methods made in the enumerated runs.
StepsToCalls == {[name |-> "steps_to", target |-> t] : t \in {"ZZZ", "AAA"}}

ParallelCall == [name |-> "parallel_steps_to_z", target |-> ""]

\* A method of a DesertMap has just been called.
InitDesert ==
    /\ \E d \in {EX1_IN, EX2_IN, EX3_IN, NoSteps} \cup SmallDeserts \cup ForkDeserts :
           /\ map = d.map
           /\ steps = d.steps
           /\ method \in (IF d \in ForkDeserts THEN {} ELSE StepsToCalls) \cup {ParallelCall}
    /\ walk_pc = IF method.name = "steps_to" THEN "steps_to" ELSE "for"
    /\ current_node = "AAA"
    /\ current_step = 0
    /\ total_steps = 0
    /\ pending = IF method.name = "steps_to" THEN {}
                 ELSE {k \in DOMAIN map : ends_with(k, "A")}
    /\ cycle_lengths = <<>>
    /\ returned = PANIC

\* Day 8 while another program runs.
DesertIdle ==
    /\ map = EX1_IN.map
    /\ steps = EX1_IN.steps
    /\ method = ParallelCall
    /\ walk_pc = "idle"
    /\ current_node = "AAA"
    /\ current_step = 0
    /\ total_steps = 0
    /\ pending = {}
    /\ cycle_lengths = <<>>
    /\ returned = PANIC

\* ------------------------------------------------------- day 7 (day07.rs)

\* enum CamelHandType, weakest first: the derived Ord compares the position.
CamelHandType ==
    <<"HighCard", "OnePair", "TwoPair", "ThreeOfAKind", "FullHouse", "FourOfAKind",
      "FiveOfAKind">>

\* The position of a CamelHandType variant in the enum.
discriminant(t) == CHOOSE i \in 1..Len(CamelHandType) : CamelHandType[i] = t

\* The code point of a card's character, the order Vec<char>::sort uses.
code_point(c) ==
    CASE c = "2" -> 50 [] c = "3" -> 51 [] c = "4" -> 52 [] c = "5" -> 53
      [] c = "6" -> 54 [] c = "7" -> 55 [] c = "8" -> 56 [] c = "9" -> 57
      [] c = "A" -> 65 [] c = "J" -> 74 [] c = "K" -> 75 [] c = "Q" -> 81
      [] c = "T" -> 84

\* One insertion step of a sort of characters.
RECURSIVE insert_char(_, _)
insert_char(c, sorted) ==
    IF sorted = <<>> THEN <<c>>
    ELSE IF code_point(c) < code_point(Head(sorted))
    THEN <<c>> \o sorted
    ELSE <<Head(sorted)>> \o insert_char(c, Tail(sorted))

\* Vec<char>::sort.
RECURSIVE sort_chars(_)
sort_chars(cards) ==
    IF cards = <<>> THEN <<>>
    ELSE insert_char(cards[Len(cards)], sort_chars(SubSeq(cards, 1, Len(cards) - 1)))

\* Vec::dedup: consecutive equal elements collapse into one.
RECURSIVE dedup(_)
dedup(v) ==
    IF Len(v) <= 1 THEN v
    ELSE IF v[1] = v[2] THEN dedup(Tail(v))
    ELSE <<v[1]>> \o dedup(Tail(v))

\* CamelHand::base_hand_type.
base_hand_type(cards) ==
    LET sorted  == sort_chars(cards)
        at_least_three_of_a_kind ==
            sorted[1] = sorted[3] \/ sorted[2] = sorted[4] \/ sorted[3] = sorted[5]
        at_least_four_of_a_kind == sorted[1] = sorted[4] \/ sorted[2] = sorted[5]
        deduped == dedup(sorted)
    IN  CASE Len(deduped) = 5 -> "HighCard"
          [] Len(deduped) = 4 -> "OnePair"
          [] Len(deduped) = 3 ->
               IF at_least_three_of_a_kind THEN "ThreeOfAKind" ELSE "TwoPair"
          [] Len(deduped) = 2 ->
               IF at_least_four_of_a_kind THEN "FourOfAKind" ELSE "FullHouse"
          [] Len(deduped) = 1 -> "FiveOfAKind"

\* The elements of v other than c, in order: filter(|&c| c != 'J').
RECURSIVE filter_not(_, _)
filter_not(v, c) ==
    IF v = <<>> THEN <<>>
    ELSE IF v[1] = c THEN filter_not(Tail(v), c)
    ELSE <<v[1]>> \o filter_not(Tail(v), c)

\* [c].repeat(n).
repeat(c, n) == [i \in 1..n |-> c]

\* The greatest CamelHandType of a non-empty set: Iterator::max.
max_type(types) ==
    CHOOSE t \in types : \A u \in types : discriminant(u) <= discriminant(t)

\* CamelHand::hand_type.
hand_type(hand) ==
    LET joker_count == Cardinality({i \in 1..Len(hand.cards) : hand.cards[i] = "J"})
    IN  IF ~hand.jokers \/ joker_count = 0 \/ joker_count = 5
        THEN base_hand_type(hand.cards)
        ELSE LET normal_cards == filter_not(hand.cards, "J")
             IN  max_type({ base_hand_type(normal_cards \o repeat(normal_cards[i], joker_count))
                            : i \in 1..Len(normal_cards) })

\* card_value with J worth 11 in both modes.
card_value_jack_high(hand, card) ==
    CASE card = "A" -> 14 [] card = "K" -> 13 [] card = "Q" -> 12
      [] card = "J" -> 11
      [] card = "T" -> 10 [] card = "9" -> 9 [] card = "8" -> 8 [] card = "7" -> 7
      [] card = "6" -> 6 [] card = "5" -> 5 [] card = "4" -> 4 [] card = "3" -> 3
      [] card = "2" -> 2

\* CamelHand::card_value.
card_value(hand, card) ==
    CASE card = "A" -> 14 [] card = "K" -> 13 [] card = "Q" -> 12
      [] card = "J" -> (IF hand.jokers THEN 1 ELSE 11)
      [] card = "T" -> 10 [] card = "9" -> 9 [] card = "8" -> 8 [] card = "7" -> 7
      [] card = "6" -> 6 [] card = "5" -> 5 [] card = "4" -> 4 [] card = "3" -> 3
      [] card = "2" -> 2

\* Ord::cmp of two tuples of integers of one length, from position i on.
RECURSIVE cmp_tuple(_, _, _)
cmp_tuple(a, b, i) ==
    IF i > Len(a) THEN "Equal"
    ELSE IF a[i] < b[i] THEN "Less"
    ELSE IF a[i] > b[i] THEN "Greater"
    ELSE cmp_tuple(a, b, i + 1)

\* impl Ord for CamelHand: cmp(self, other); both card lists are valued by self.
cmp(self, other) ==
    cmp_tuple(<<discriminant(hand_type(self))>>
                  \o [i \in 1..5 |-> card_value(self, self.cards[i])],
              <<discriminant(hand_type(other))>>
                  \o [i \in 1..5 |-> card_value(self, other.cards[i])],
              1)

\* Ord::cmp of two (CamelHand, u64) pairs: the hands, then the bids.
cmp_pair(a, b) ==
    LET c == cmp(a.hand, b.hand)
    IN  IF c # "Equal" THEN c
        ELSE IF a.bid < b.bid THEN "Less"
        ELSE IF a.bid > b.bid THEN "Greater"
        ELSE "Equal"

\* One insertion step of the stable sort of pairs.
RECURSIVE insert_pair(_, _)
insert_pair(x, sorted) ==
    IF sorted = <<>> THEN <<x>>
    ELSE IF cmp_pair(x, Head(sorted)) = "Less"
    THEN <<x>> \o sorted
    ELSE <<Head(sorted)>> \o insert_pair(x, Tail(sorted))

\* Vec<(CamelHand, u64)>::sort.
RECURSIVE sort(_)
sort(v) ==
    IF v = <<>> THEN <<>>
    ELSE insert_pair(v[Len(v)], sort(SubSeq(v, 1, Len(v) - 1)))

\* fold(0, |total, (i, (_hand, bet))| total + bet * (i as u64 + 1)) from element k on.
RECURSIVE fold_winnings(_, _, _)
fold_winnings(v, k, total) ==
    IF k > Len(v) THEN total
    ELSE fold_winnings(v, k + 1, total + v[k].bid * k)

\* CamelHand::from(s), and the pair solve builds from a line.
CamelHand(cards) == [cards |-> cards, jokers |-> FALSE]

Bid(cards, bid) == [hand |-> CamelHand(cards), bid |-> bid]

\* total_winnings lines 27-28: the clone is sorted.
TotalWinningsSort ==
    /\ camel_pc = "sort"
    /\ sorted_hands' = sort(hands)
    /\ camel_pc' = "fold"
    /\ UNCHANGED <<hands, winnings, wild_idx>>
    /\ OutsideDay07

\* total_winnings lines 29-32 and the println of solve.
TotalWinningsFold ==
    /\ camel_pc = "fold"
    /\ winnings' = Append(winnings, fold_winnings(sorted_hands, 1, 0))
    /\ camel_pc' = IF winnings = <<>> THEN "wild" ELSE "done"
    /\ UNCHANGED <<hands, sorted_hands, wild_idx>>
    /\ OutsideDay07

\* solve lines 17-19: one iteration of the jokers_wild loop.
JokersWild ==
    /\ camel_pc = "wild"
    /\ wild_idx <= Len(hands)
    /\ hands' = [hands EXCEPT ![wild_idx].hand.jokers = TRUE]
    /\ wild_idx' = wild_idx + 1
    /\ UNCHANGED <<sorted_hands, winnings, camel_pc>>
    /\ OutsideDay07

\* solve line 19: the jokers_wild loop is over.
JokersWildDone ==
    /\ camel_pc = "wild"
    /\ wild_idx > Len(hands)
    /\ camel_pc' = "sort"
    /\ UNCHANGED <<hands, sorted_hands, winnings, wild_idx>>
    /\ OutsideDay07

NextCamel ==
    \/ TotalWinningsSort
    \/ TotalWinningsFold
    \/ JokersWild
    \/ JokersWildDone

\* The hands and bids of tests::test_example_hand_winnings.
ExampleHands ==
    << Bid(<<"3", "2", "T", "3", "K">>, 765), Bid(<<"T", "5", "5", "J", "5">>, 684),
       Bid(<<"K", "K", "6", "7", "7">>, 28), Bid(<<"K", "T", "J", "J", "T">>, 220),
       Bid(<<"Q", "Q", "Q", "J", "A">>, 483) >>

\* Every hand over four cards, the jack among them.
FewCards == {"K", "J", "T", "2"}

FewCardHands == {<<a, b, c, d, e>> : a \in FewCards, b \in FewCards, c \in FewCards,
                                     d \in FewCards, e \in FewCards}

\* Hands of the seven types, those of tests::test_hand_types among them.
TypedHands ==
    { <<"2", "K", "4", "T", "6">>, <<"4", "Q", "A", "2", "Q">>, <<"K", "K", "2", "T", "T">>,
      <<"9", "2", "9", "9", "Q">>, <<"2", "T", "2", "T", "2">>, <<"J", "J", "J", "3", "J">>,
      <<"7", "7", "7", "7", "7">> }

\* The inputs of day 7: the example, and every pair of a FewCardHands hand and
\* a TypedHands hand, in that order, with bids 1 and 2.
CamelInputs ==
    {ExampleHands} \cup {<<Bid(h, 1), Bid(t, 2)>> : h \in FewCardHands, t \in TypedHands}

\* solve after the hands are read, before the first total_winnings.
InitCamel ==
    /\ hands \in CamelInputs
    /\ sorted_hands = <<>>
    /\ winnings = <<>>
    /\ wild_idx = 1
    /\ camel_pc = "sort"

\* Day 7 while another program runs.
CamelIdle ==
    /\ hands = <<>>
    /\ sorted_hands = <<>>
    /\ winnings = <<>>
    /\ wild_idx = 1
    /\ camel_pc = "idle"

\* ------------------------------------------------------- day 1 (day01.rs)

\* Most tokens of an enumerated line.
MaxTokens == 3

\* char::is_ascii_digit.
is_ascii_digit(c) == c \in {"0", "1", "2", "3", "4", "5", "6", "7", "8", "9"}

\* util::conversions::digit_value: digit as u64 - '0' as u64.
digit_value(c) ==
    CASE c = "0" -> 0 [] c = "1" -> 1 [] c = "2" -> 2 [] c = "3" -> 3 [] c = "4" -> 4
      [] c = "5" -> 5 [] c = "6" -> 6 [] c = "7" -> 7 [] c = "8" -> 8 [] c = "9" -> 9

\* The alternatives of DIGIT_REGEX, in order; the match arm of each gives its place.
DIGIT_WORDS == <<"one", "two", "three", "four", "five", "six", "seven", "eight", "nine">>

\* s starts with the word w.
starts_with(s, w) == Len(s) >= Len(w) /\ SubSeq(s, 1, Len(w)) = w

\* Option<u64>::None, the result of get_digit where no digit starts.
NoDigit == <<>>

\* get_digit.
get_digit(s, spelled) ==
    IF Len(s) = 0 THEN NoDigit
    ELSE IF is_ascii_digit(SubSeq(s, 1, 1)) THEN Some(digit_value(SubSeq(s, 1, 1)))
    ELSE IF spelled
    THEN LET found == {k \in 1..Len(DIGIT_WORDS) : starts_with(s, DIGIT_WORDS[k])}
         IN  IF found = {} THEN NoDigit ELSE Some(Min(found))
    ELSE NoDigit

\* get_calibration_value: one iteration of `for i in 0..s.len()`.
CalibrationIter ==
    /\ calib_pc = "loop"
    /\ calib_i < Len(calib_s)
    /\ LET next_digit == get_digit(SubSeq(calib_s, calib_i + 1, Len(calib_s)),
                                   include_spelled_out_numbers)
       IN  IF next_digit # NoDigit
           THEN /\ digit1' = IF digit1 = 0 THEN next_digit[1] ELSE digit1
                /\ digit2' = next_digit[1]
           ELSE UNCHANGED <<digit1, digit2>>
    /\ calib_i' = calib_i + 1
    /\ UNCHANGED <<calib_s, include_spelled_out_numbers, calibration, calib_pc>>
    /\ OutsideDay01

\* get_calibration_value: the loop is over, Ok(digit1 * 10 + digit2) is returned.
CalibrationReturn ==
    /\ calib_pc = "loop"
    /\ calib_i = Len(calib_s)
    /\ calibration' = digit1 * 10 + digit2
    /\ calib_pc' = "returned"
    /\ UNCHANGED <<calib_s, include_spelled_out_numbers, calib_i, digit1, digit2>>
    /\ OutsideDay01

NextCalibration == CalibrationIter \/ CalibrationReturn

\* test::EX1_IN and test::EX2_IN.
CALIBRATION_EX1_IN == {"1abc2", "pqr3stu8vwx", "a1b2c3d4e5f", "treb7uchet"}

CALIBRATION_EX2_IN ==
    {"two1nine", "eightwothree", "abcone2threexyz", "xtwone3four", "4nineeightseven2",
     "zoneight234", "7pqrstsixteen"}

\* The pieces the enumerated lines are made of: digits, the digit 0 among them,
\* a letter, words, and the beginnings of words that overlap the next word.
Tokens == {"0", "1", "7", "t", "one", "two", "eigh", "tw"}

\* The lines of at most n tokens.
RECURSIVE TokenLines(_)
TokenLines(n) ==
    IF n = 0 THEN {""}
    ELSE LET shorter == TokenLines(n - 1)
         IN  shorter \cup {l \o t : l \in shorter, t \in Tokens}

\* get_calibration_value has just been called.
InitCalibration ==
    /\ calib_s \in TokenLines(MaxTokens) \cup CALIBRATION_EX1_IN \cup CALIBRATION_EX2_IN
    /\ include_spelled_out_numbers \in BOOLEAN
    /\ calib_i = 0
    /\ digit1 = 0
    /\ digit2 = 0
    /\ calibration = PANIC
    /\ calib_pc = "loop"

\* Day 1 while another program runs.
CalibrationIdle ==
    /\ calib_s = ""
    /\ include_spelled_out_numbers = FALSE
    /\ calib_i = 0
    /\ digit1 = 0
    /\ digit2 = 0
    /\ calibration = PANIC
    /\ calib_pc = "idle"

\* ---------------------------------------------------------------- day 4

\* The most cards a table holds.
MaxCards == 4

\* Card::parse on a line with these winners and picks.
Card(winners, picks) == [copies |-> 1, winners |-> winners, picks |-> picks]

\* Card::win_count.
win_count(card) == Cardinality({w \in card.winners : w \in card.picks})

\* The body of the inner loop with each win adding a single copy.
add_copies_one_each(table, i, j) ==
    [table EXCEPT ![i + j + 1].copies = @ + 1]

\* cards[i + j].copies += cards[i].copies, i and j as in the source (i from 0).
add_copies(table, i, j) ==
    [table EXCEPT ![i + j + 1].copies = @ + table[i + 1].copies]

\* for i in 0..cards.len(): the next card, its range 1..=win_count computed.
PropagateFor ==
    /\ prop_pc = "for_i"
    /\ prop_i < Len(card_vec)
    /\ prop_end' = win_count(card_vec[prop_i + 1])
    /\ prop_j' = 1
    /\ prop_pc' = "for_j"
    /\ UNCHANGED <<card_vec, prop_i>>
    /\ OutsideDay04

\* One iteration of the inner loop with cards[i + j] inside the table.
PropagateAdd ==
    /\ prop_pc = "for_j"
    /\ prop_j <= prop_end
    /\ prop_i + prop_j < Len(card_vec)
    /\ card_vec' = add_copies(card_vec, prop_i, prop_j)
    /\ prop_j' = prop_j + 1
    /\ UNCHANGED <<prop_i, prop_end, prop_pc>>
    /\ OutsideDay04

\* One iteration of the inner loop with i + j past the table: the index aborts.
PropagateOutOfBounds ==
    /\ prop_pc = "for_j"
    /\ prop_j <= prop_end
    /\ prop_i + prop_j >= Len(card_vec)
    /\ prop_pc' = "panic"
    /\ UNCHANGED <<card_vec, prop_i, prop_j, prop_end>>
    /\ OutsideDay04

\* The inner loop's range is exhausted: on to the next i.
PropagateNext ==
    /\ prop_pc = "for_j"
    /\ prop_j > prop_end
    /\ prop_i' = prop_i + 1
    /\ prop_pc' = "for_i"
    /\ UNCHANGED <<card_vec, prop_j, prop_end>>
    /\ OutsideDay04

\* The outer loop's range is exhausted: propagate_wins returns.
PropagateReturn ==
    /\ prop_pc = "for_i"
    /\ prop_i = Len(card_vec)
    /\ prop_pc' = "returned"
    /\ UNCHANGED <<card_vec, prop_i, prop_j, prop_end>>
    /\ OutsideDay04

NextPropagate ==
    \/ PropagateFor
    \/ PropagateAdd
    \/ PropagateOutOfBounds
    \/ PropagateNext
    \/ PropagateReturn

\* The test's cards, parsed.
CARDS_EX_IN ==
    << Card({41, 48, 83, 86, 17}, {83, 86, 6, 31, 17, 9, 48, 53}),
       Card({13, 32, 20, 16, 61}, {61, 30, 68, 82, 17, 32, 24, 19}),
       Card({1, 21, 53, 59, 44}, {69, 82, 63, 72, 16, 21, 14, 1}),
       Card({41, 92, 73, 84, 69}, {59, 84, 76, 51, 58, 5, 54, 83}),
       Card({87, 83, 26, 28, 32}, {88, 30, 70, 12, 93, 22, 82, 36}),
       Card({31, 18, 13, 56, 72}, {74, 77, 10, 23, 35, 67, 36, 11}) >>

\* Cards with three winners and no, one, two or three of them picked.
SmallCards ==
    { Card({1, 2, 3}, picks) : picks \in {{4}, {1, 4}, {1, 2}, {3, 2, 1, 4}} }

\* Every table of at most MaxCards small cards, the empty table included.
CardTables ==
    UNION { [1..n -> SmallCards] : n \in 0..MaxCards }

\* propagate_wins is called on parsed cards.
InitPropagate ==
    /\ card_vec \in CardTables \cup {CARDS_EX_IN}
    /\ prop_i = 0
    /\ prop_j = 0
    /\ prop_end = 0
    /\ prop_pc = "for_i"

\* Day 4 while another program runs.
PropagateIdle ==
    /\ card_vec = <<>>
    /\ prop_i = 0
    /\ prop_j = 0
    /\ prop_end = 0
    /\ prop_pc = "idle"

\* ---------------------------------------------------------------- day 3

\* Option<(usize, usize, usize, u64)>::None; Some(num) is <<num>>.
NoNumber == <<>>

\* The most cells an enumerated grid holds.
MaxCells == 6

\* The character of line at column col, counted from 0.
char_at(line, col) == SubSeq(line, col + 1, col + 1)

\* The struct EngineSchematic::new returns.
EngineSchematic == [data |-> data, symbols |-> symbols, numbers |-> numbers]

\* adjacent_positions without the corners before and after the number.
adjacent_positions_no_corners(self, number_tuple) ==
    LET row == number_tuple[1]
        col == number_tuple[2]
        len == number_tuple[3]
        col_after == col + len
    IN  (IF col > 0 THEN {<<row, col - 1>>} ELSE {})
        \cup UNION { (IF row > 0 THEN {<<row - 1, c>>} ELSE {})
                     \cup (IF row + 1 < Len(self.data) THEN {<<row + 1, c>>} ELSE {})
                     : c \in col..(col + len - 1) }
        \cup (IF col_after < Len(self.data[1]) THEN {<<row, col_after>>} ELSE {})

\* adjacent_positions: the positions pushed, as a set; rows and columns from 0.
adjacent_positions(self, number_tuple) ==
    LET row == number_tuple[1]
        col == number_tuple[2]
        len == number_tuple[3]
        col_after == col + len
        above(c) == IF row > 0 THEN {<<row - 1, c>>} ELSE {}
        below(c) == IF row + 1 < Len(self.data) THEN {<<row + 1, c>>} ELSE {}
    IN  (IF col > 0
         THEN above(col - 1) \cup {<<row, col - 1>>} \cup below(col - 1)
         ELSE {})
        \cup UNION { above(c) \cup below(c) : c \in col..(col + len - 1) }
        \cup (IF col_after < Len(self.data[1])
              THEN above(col_after) \cup {<<row, col_after>>} \cup below(col_after)
              ELSE {})

\* The filter closure of get_part_numbers.
is_part(self, n) == \E p \in adjacent_positions(self, n) : p \in self.symbols

\* get_part_numbers: the values of the numbers the filter keeps, in order.
RECURSIVE get_part_numbers(_, _)
get_part_numbers(self, k) ==
    IF k > Len(self.numbers) THEN <<>>
    ELSE (IF is_part(self, self.numbers[k]) THEN <<self.numbers[k][4]>> ELSE <<>>)
         \o get_part_numbers(self, k + 1)

\* if let Some(num) = current_number { numbers.push(num) }.
push_current(nums, cur) == IF cur = NoNumber THEN nums ELSE Append(nums, cur[1])

\* The character at (row, col) is an ASCII digit.
ScanDigit ==
    /\ engine_pc = "scan"
    /\ scan_row < Len(data)
    /\ scan_col < Len(data[scan_row + 1])
    /\ LET c == char_at(data[scan_row + 1], scan_col)
       IN  /\ is_ascii_digit(c)
           /\ current_number' =
                IF current_number = NoNumber
                THEN Some(<<scan_row, scan_col, 1, digit_value(c)>>)
                ELSE LET num == current_number[1]
                     IN  Some(<<num[1], num[2], num[3] + 1, num[4] * 10 + digit_value(c)>>)
    /\ scan_col' = scan_col + 1
    /\ UNCHANGED <<data, symbols, numbers, scan_row, part_numbers, engine_pc>>
    /\ OutsideDay03

\* The character at (row, col) is not a digit.
ScanOther ==
    /\ engine_pc = "scan"
    /\ scan_row < Len(data)
    /\ scan_col < Len(data[scan_row + 1])
    /\ LET c == char_at(data[scan_row + 1], scan_col)
       IN  /\ ~is_ascii_digit(c)
           /\ numbers' = push_current(numbers, current_number)
           /\ current_number' = NoNumber
           /\ symbols' = IF c # "." THEN symbols \cup {<<scan_row, scan_col>>} ELSE symbols
    /\ scan_col' = scan_col + 1
    /\ UNCHANGED <<data, scan_row, part_numbers, engine_pc>>
    /\ OutsideDay03

\* The row's characters are exhausted: the number in progress is pushed.
ScanEndOfRow ==
    /\ engine_pc = "scan"
    /\ scan_row < Len(data)
    /\ scan_col = Len(data[scan_row + 1])
    /\ numbers' = push_current(numbers, current_number)
    /\ current_number' = NoNumber
    /\ scan_row' = scan_row + 1
    /\ scan_col' = 0
    /\ UNCHANGED <<data, symbols, part_numbers, engine_pc>>
    /\ OutsideDay03

\* The rows are exhausted: new returns the struct.
EngineSchematicNew ==
    /\ engine_pc = "scan"
    /\ scan_row = Len(data)
    /\ engine_pc' = "built"
    /\ UNCHANGED <<data, symbols, numbers, current_number, scan_row, scan_col,
                   part_numbers>>
    /\ OutsideDay03

\* schematic.get_part_numbers().
GetPartNumbers ==
    /\ engine_pc = "built"
    /\ part_numbers' = get_part_numbers(EngineSchematic, 1)
    /\ engine_pc' = "parts"
    /\ UNCHANGED <<data, symbols, numbers, current_number, scan_row, scan_col>>
    /\ OutsideDay03

NextEngine ==
    \/ ScanDigit
    \/ ScanOther
    \/ ScanEndOfRow
    \/ EngineSchematicNew
    \/ GetPartNumbers

\* The test's schematic.
ENGINE_EX_IN ==
    << "467..114..",
       "...*......",
       "..35..633.",
       "......#...",
       "617*......",
       ".....+.58.",
       "..592.....",
       "......755.",
       "...$.*....",
       ".664.598.." >>

\* The characters of the enumerated grids: a digit, a blank and a symbol.
Cells == {"7", ".", "*"}

\* Every row of n cells.
RECURSIVE Rows(_)
Rows(n) == IF n = 0 THEN {""} ELSE {c \o r : c \in Cells, r \in Rows(n - 1)}

\* Every grid of at most MaxCells cells, the grid with no row and the grids of
\* empty rows included.
Grids ==
    UNION { [1..rc[1] -> Rows(rc[2])] :
            rc \in {x \in (0..MaxCells) \X (0..MaxCells) : x[1] * x[2] <= MaxCells} }

\* Grids whose rows differ in length.
RaggedGrids ==
    { <<"7", "77*">>, <<"77*", "7">>, <<"", "7*">>, <<".7", "*">> }

\* EngineSchematic::new starts on the lines of a file.
InitEngine ==
    /\ data \in Grids \cup RaggedGrids \cup {ENGINE_EX_IN}
    /\ symbols = {}
    /\ numbers = <<>>
    /\ current_number = NoNumber
    /\ scan_row = 0
    /\ scan_col = 0
    /\ part_numbers = <<>>
    /\ engine_pc = "scan"

\* Day 3 while another program runs.
EngineIdle ==
    /\ data = <<>>
    /\ symbols = {}
    /\ numbers = <<>>
    /\ current_number = NoNumber
    /\ scan_row = 0
    /\ scan_col = 0
    /\ part_numbers = <<>>
    /\ engine_pc = "idle"

\* ---------------------------------------------------------- specifications

\* solve starts: the file's lines are read, Almanac::new has read none of them.
Init ==
    /\ input \in FreeInputs
    /\ overflow_checks \in BOOLEAN
    /\ pc = "parse"
    /\ err = ""
    /\ lines_read = 0
    /\ current_source = ParserStart.current_source
    /\ current_dest = ParserStart.current_dest
    /\ seeds_to_plant = ParserStart.seeds_to_plant
    /\ maps = ParserStart.maps
    /\ SolveStart

\* solve after Almanac::new returned Ok on one of inputs.
InitBuilt(inputs) ==
    /\ input \in inputs
    /\ overflow_checks \in BOOLEAN
    /\ LET st == AlmanacNew(input, overflow_checks)
       IN  /\ st.status = "ok"
           /\ current_source = st.current_source
           /\ current_dest = st.current_dest
           /\ seeds_to_plant = st.seeds_to_plant
           /\ maps = st.maps
    /\ lines_read = Len(input)
    /\ pc = "part1"
    /\ err = ""
    /\ SolveStart

InitConvert == InitBuilt(ConvInputs)

InitSearch == InitBuilt(SearchInputs)

\* The programs other than the day-5 solver and main are not running.
ElsewhereIdle ==
    DesertIdle /\ CamelIdle /\ CalibrationIdle /\ PropagateIdle /\ EngineIdle

\* The day-5 solver and main are not running.
Day05Off ==
    /\ overflow_checks = TRUE
    /\ Day05Idle
    /\ MainIdle

\* The initial states of the specifications: one program starts, the others
\* are not running.
StartSolve == Init /\ MainIdle /\ ElsewhereIdle
StartConvert == InitConvert /\ MainIdle /\ ElsewhereIdle
StartSearch == InitSearch /\ MainIdle /\ ElsewhereIdle
StartMain == InitMain /\ ElsewhereIdle
StartDesert ==
    /\ InitDesert
    /\ Day05Off /\ CamelIdle /\ CalibrationIdle /\ PropagateIdle /\ EngineIdle
StartCamel ==
    /\ InitCamel
    /\ Day05Off /\ DesertIdle /\ CalibrationIdle /\ PropagateIdle /\ EngineIdle
StartCalibration ==
    /\ InitCalibration
    /\ Day05Off /\ DesertIdle /\ CamelIdle /\ PropagateIdle /\ EngineIdle
StartPropagate ==
    /\ InitPropagate
    /\ Day05Off /\ DesertIdle /\ CamelIdle /\ CalibrationIdle /\ EngineIdle
StartEngine ==
    /\ InitEngine
    /\ Day05Off /\ DesertIdle /\ CamelIdle /\ CalibrationIdle /\ PropagateIdle

\* The whole of solve on the free-form inputs and the fixture.
Spec == StartSolve /\ [][Next]_vars

\* Part 1 of solve on almanacs with one enumerated table.
SpecConvert == StartConvert /\ [][PartOne]_vars

\* The two parts of solve on almanacs with enumerated tables in two windows.
SpecSearch == StartSearch /\ [][Solve]_vars

\* main on every enumerated day, the day-5 solver in full.
SpecMain == StartMain /\ [][NextMain]_<<vars, main_vars>>

\* The two methods of DesertMap on the enumerated maps.
SpecDesert == StartDesert /\ [][NextDesert]_day08_vars

\* The day-7 solver after its input is read.
SpecCamel == StartCamel /\ [][NextCamel]_day07_vars

\* get_calibration_value on the enumerated lines, with and without words.
SpecCalibration == StartCalibration /\ [][NextCalibration]_day01_vars

\* propagate_wins on the enumerated card tables and the test's cards.
SpecPropagate == StartPropagate /\ [][NextPropagate]_day04_vars

\* EngineSchematic::new and get_part_numbers on the enumerated grids.
SpecEngine == StartEngine /\ [][NextEngine]_day03_vars

\* ----------------------------------------------------------------- claims

\* The table convert_resource reads for a call: empty when the key is absent.
table_of(call) ==
    IF <<call.source, call.dest>> \in DOMAIN maps
    THEN maps[<<call.source, call.dest>>]
    ELSE <<>>

\* v lies in the source interval [start, end) of a stored row.
InInterval(v, row) == row.start <= v /\ v < row.end

\* The rows of a table whose source interval holds v.
Holding(table, v) == {j \in 1..Len(table) : InInterval(v, table[j])}

\* The data rows of inp read while the header "source-to-dest map:" is active,
\* in input order.
RECURSIVE section_rows(_, _, _, _, _)
section_rows(inp, i, active, source, dest) ==
    IF i > Len(inp)
    THEN <<>>
    ELSE LET line == inp[i]
         IN  IF line.shape = "row"
             THEN (IF active THEN <<line>> ELSE <<>>)
                      \o section_rows(inp, i + 1, active, source, dest)
             ELSE IF line.shape = "header"
             THEN section_rows(inp, i + 1, line.source = source /\ line.dest = dest,
                               source, dest)
             ELSE IF line.shape = "blank"
             THEN section_rows(inp, i + 1, FALSE, source, dest)
             ELSE section_rows(inp, i + 1, active, source, dest)

\* The rows "D S L" of the input declaring an interval [S, S+L) that holds v.
Declaring(rows, v) ==
    {j \in 1..Len(rows) : rows[j].nums[2] <= v /\ v < rows[j].nums[2] + rows[j].nums[3]}

\* The rows the input declares for the table of a call.
declared(call) == section_rows(input, 1, FALSE, call.source, call.dest)

(* C3: identity fallback.  Every convert_resource call whose value lies in none
   of the source intervals [S, S+L) the input declares for its table, a table
   without rows or without header included, returns the value unchanged. *)
C3_IdentityFallback ==
    \A i \in 1..Len(calls) :
        Declaring(declared(calls[i]), calls[i].value) = {}
            => calls[i].result = calls[i].value

\* C3's case: a call on a table declaring a non-empty interval that does not
\* hold the value.
C3_Witness ==
    \E i \in 1..Len(calls) :
        /\ Declaring(declared(calls[i]), calls[i].value) = {}
        /\ \E j \in 1..Len(declared(calls[i])) : declared(calls[i])[j].nums[3] > 0
        /\ calls[i].result = calls[i].value

(* C4 as stated: every convert_resource call that returns and whose value v lies
   in exactly one declared source interval [S, S+L), with destination start D,
   returns D + (v - S). *)
C4_OffsetMapping_Original ==
    \A i \in 1..Len(calls) :
        LET rows == declared(calls[i])
            v    == calls[i].value
        IN  \A j \in 1..Len(rows) :
                (Declaring(rows, v) = {j} /\ calls[i].result # PANIC)
                    => calls[i].result = rows[j].nums[1] + (v - rows[j].nums[2])

(* C4, amended: every convert_resource call whose value v lies in exactly one
   declared source interval [S, S+L), with destination start D, and for which
   S + L and D + (v - S) are at most u64::MAX, returns D + (v - S). *)
C4_OffsetMapping ==
    \A i \in 1..Len(calls) :
        LET rows == declared(calls[i])
            v    == calls[i].value
        IN  \A j \in 1..Len(rows) :
                (/\ Declaring(rows, v) = {j}
                 /\ rows[j].nums[2] + rows[j].nums[3] <= U64_MAX
                 /\ rows[j].nums[1] + (v - rows[j].nums[2]) <= U64_MAX)
                    => calls[i].result = rows[j].nums[1] + (v - rows[j].nums[2])

\* C4's case: a call mapped through its one declaring row, strictly inside the
\* interval and by a non-zero shift.
C4_Witness ==
    \E i \in 1..Len(calls) :
        LET rows == declared(calls[i])
            v    == calls[i].value
        IN  \E j \in 1..Len(rows) :
                /\ Declaring(rows, v) = {j}
                /\ v > rows[j].nums[2]
                /\ rows[j].nums[1] # rows[j].nums[2]
                /\ calls[i].result = rows[j].nums[1] + (v - rows[j].nums[2])
                /\ calls[i].result # v

(* C5: first match in declaration order.  The table of every convert_resource
   call holds the rows "D S L" of the input in input order, and a call whose
   value lies in several of the table's source intervals is computed from the
   earliest such row of the input: its result is D + (value - S) as
   convert_resource's addition yields it. *)
C5_FirstMatchInDeclarationOrder ==
    \A i \in 1..Len(calls) :
        LET rows  == declared(calls[i])
            table == table_of(calls[i])
            v     == calls[i].value
            held  == Holding(table, v)
        IN  /\ Len(table) = Len(rows)
            /\ \A j \in 1..Len(rows) :
                   /\ table[j].start = rows[j].nums[2]
                   /\ table[j].dstart = rows[j].nums[1]
            /\ held # {} =>
                   LET first == rows[Min(held)]
                   IN  calls[i].result =
                           Add(first.nums[1], v - first.nums[2], overflow_checks)

\* C5's case: the value lies in two intervals of the table and the later row
\* would have given another result.
C5_Witness ==
    \E i \in 1..Len(calls) :
        LET rows == declared(calls[i])
            v    == calls[i].value
            held == Holding(table_of(calls[i]), v)
        IN  /\ Cardinality(held) >= 2
            /\ \E j \in held :
                   /\ j # Min(held)
                   /\ Add(rows[j].nums[1], v - rows[j].nums[2], overflow_checks)
                        # calls[i].result
            /\ calls[i].result # PANIC

\* The seven transitions of the pipeline, as the specification lists them.
Pipeline ==
    << <<"seed", "soil">>, <<"soil", "fertilizer">>, <<"fertilizer", "water">>,
       <<"water", "light">>, <<"light", "temperature">>, <<"temperature", "humidity">>,
       <<"humidity", "location">> >>

\* The last location_for_seed call returned.
Located == calls # <<>> /\ calls[Len(calls)].result # PANIC

(* C6: the calls of a location_for_seed call are the seven transitions in the
   fixed order, the first on the seed and each next one on the previous result
   (an aborted call has made a prefix of them); a call that returns has made
   exactly seven and returns the last result; and the almanac stays as
   Almanac::new built it. *)
C6_SevenFixedTransitions ==
    /\ Len(calls) <= 7
    /\ \A i \in 1..Len(calls) :
           /\ <<calls[i].source, calls[i].dest>> = Pipeline[i]
           /\ calls[i].value = IF i = 1 THEN seeds_to_plant[seed_idx - 1]
                               ELSE calls[i - 1].result
    /\ Located => /\ Len(calls) = 7
                  /\ locations[Len(locations)] = calls[7].result
    /\ pc \in {"part1", "part2", "done", "panic"} /\ lines_read = Len(input)
           => /\ maps = AlmanacNew(input, overflow_checks).maps
              /\ seeds_to_plant = AlmanacNew(input, overflow_checks).seeds_to_plant

\* C6's case: a returned call of seven calls, the first two of which both
\* changed the value.
C6_Witness ==
    /\ Located
    /\ Len(calls) = 7
    /\ calls[1].result # calls[1].value
    /\ calls[2].result # calls[2].value
    /\ locations[Len(locations)] = calls[7].result

\* All seven tables of the pipeline are present.
AllSevenTables == \A k \in 1..7 : Pipeline[k] \in DOMAIN maps

\* No two rows of one table have source intervals with a common value.
NonOverlapping ==
    \A key \in DOMAIN maps :
        \A i, j \in 1..Len(maps[key]) :
            i # j => ~\E v \in 0..U64_MAX :
                         InInterval(v, maps[key][i]) /\ InInterval(v, maps[key][j])

\* The seeds of the ranges (start, length) of seeds_to_plant.
RangeSeeds ==
    UNION { {s \in 0..U64_MAX : t[1] <= s /\ s < t[1] + t[2]}
            : t \in {tuples(seeds_to_plant)[k] : k \in 1..Len(tuples(seeds_to_plant))} }

\* The minimum of location_for_seed over every seed of every range.
ExhaustiveMin ==
    Min({location_for_seed(maps, s, overflow_checks) : s \in RangeSeeds})

(* C1 as stated: when the almanac has all seven tables with non-overlapping
   source intervals, the minimum location the range loop ends with equals the
   minimum of location_for_seed over every seed of the ranges. *)
C1_StepSkippingAgrees ==
    (pc = "done" /\ AllSevenTables /\ NonOverlapping /\ RangeSeeds # {})
        => lowest_location = ExhaustiveMin

\* The last optimized_location_for_seed call was made (it may have aborted).
Optimized == last_opt.seed # PANIC

(* C2 as stated: for every almanac the parser produces, a table without rows
   included, every optimized_location_for_seed call returns as its location
   location_for_seed of the same seed. *)
C2_SameLocation ==
    Optimized =>
        last_opt.location = location_for_seed(maps, last_opt.seed, overflow_checks)

\* The distance C7 gives for one stage, on the value entering it: {} when the
\* stage has no boundary ahead.
StageDistance(table, v) ==
    IF Holding(table, v) # {}
    THEN {table[Min(Holding(table, v))].end - v}
    ELSE LET ahead == {table[j].start - v : j \in {k \in 1..Len(table) : table[k].start > v}}
         IN  IF ahead = {} THEN {} ELSE {Min(ahead)}

\* The step C7 gives for a seed: the least stage distance over the calls of
\* location_for_seed, u64::MAX when no stage has one.
ClaimedStep(s) ==
    LET stages == fold_calls(maps, tuple_windows(CONVERSIONS), 1, s, overflow_checks)
    IN  Min({U64_MAX} \cup
            UNION {StageDistance(table_of(stages[i]), stages[i].value) : i \in 1..Len(stages)})

(* C7 as stated: the step optimized_location_for_seed returns is the minimum
   over the seven stages of the distance, from the value entering the stage, to
   the end of the interval holding it or else to the nearest interval start
   after it. *)
C7_StepIsStageMinimum ==
    (Optimized /\ last_opt.step # PANIC /\ AllSevenTables /\ NonOverlapping)
        => last_opt.step = ClaimedStep(last_opt.seed)

\* The length of the current range.
range_length == tuples(seeds_to_plant)[range_idx][2]

(* C8 as stated: every iteration of the range loop gets a step of at least 1 and
   strictly increases the cursor, and a range (start, length) takes at most
   length iterations. *)
C8_SearchTerminates ==
    [][SearchStep => /\ last_opt'.step >= 1
                     /\ seed' > seed
                     /\ iterations' <= range_length]_vars

(* C9: on the fixture EX_IN, location_for_seed gives 82, 43, 86 and 35 for the
   seeds 79, 14, 55 and 13, and the range search over (79, 14) and (55, 13)
   ends with minimum location 46. *)
C9_WorkedExample ==
    input = EX_IN =>
        /\ pc \in {"part2", "done"} =>
               /\ seeds_to_plant = <<79, 14, 55, 13>>
               /\ locations = <<82, 43, 86, 35>>
        /\ pc \notin {"err", "panic"}
        /\ pc = "done" => lowest_location = 46

\* C9's case: solve has run to its end on the fixture.
C9_Witness ==
    /\ input = EX_IN
    /\ pc = "done"
    /\ locations = <<82, 43, 86, 35>>
    /\ lowest_location = 46

\* A header has been read among the first n lines of inp since the most recent
\* blank line, or since the start.
HeaderSinceBlank(inp, n) ==
    \E h \in 1..n :
        /\ inp[h].shape = "header"
        /\ \A b \in (h + 1)..n : inp[b].shape # "blank"

(* C10: while Almanac::new reads lines, a (source, dest) pair is active exactly
   when a header has been read since the most recent blank line or the start;
   a data row is accepted only then; and a data row read while no pair is
   active makes Almanac::new fail with the 'no map header' error. *)
C10_ParserSectionState ==
    /\ pc = "parse" =>
           /\ (current_source # None) = HeaderSinceBlank(input, lines_read)
           /\ (current_dest # None) = HeaderSinceBlank(input, lines_read)
    /\ (lines_read >= 1 /\ input[lines_read].shape = "row") =>
           /\ pc = "parse" => HeaderSinceBlank(input, lines_read - 1)
           /\ ~HeaderSinceBlank(input, lines_read - 1)
                  => pc = "err" /\ err = "no map header"
    /\ err = "no map header" =>
           /\ pc = "err"
           /\ input[lines_read].shape = "row"
           /\ ~HeaderSinceBlank(input, lines_read - 1)

\* C10's case: a row after a header and a blank line is refused.
C10_Witness ==
    /\ lines_read = 3
    /\ input[1].shape = "header"
    /\ input[2].shape = "blank"
    /\ input[3].shape = "row"
    /\ pc = "err"
    /\ err = "no map header"

\* A non-blank line that is no seeds line, no header over two known kinds and
\* no row of three numerals.
Malformed(line) ==
    \/ line.shape = "other"
    \/ line.shape = "header" /\ ~(try_into_ok(line.source) /\ try_into_ok(line.dest))

(* C11: malformed lines are refused.  Once Almanac::new is over on an input
   holding a malformed line, wherever it stands, it has returned an error: it
   has neither returned an Almanac nor aborted. *)
C11_MalformedLineIsAnError ==
    (pc # "parse" /\ \E i \in 1..Len(input) : Malformed(input[i])) => pc = "err"

(* C12: no crash.  No input makes Solver::solve abort: it is never in the
   state a panic leaves it in. *)
C12_NeverAborts == pc # "panic"

\* The decimal numerals of 0, 1, 2, ..., written out.
Numeral ==
    <<"0", "1", "2", "3", "4", "5", "6", "7", "8", "9", "10", "11", "12", "13", "14", "15">>

\* The solvers registered in the dispatcher, by day number.
Registered ==
    <<"day01::Solver", "day02::Solver", "day03::Solver", "day04::Solver",
      "day05::Solver", "day06::Solver">>

(* C13: dispatcher.  For a day without a registered solver no solver is built
   or run and no file is read, advent::solve returns "Day N not implemented.",
   and main goes on to print "error: Day N not implemented." and to return;
   for a registered day d the day's solver is called with inputs/day0d.txt and
   reads no other file. *)
C13_Dispatcher ==
    day # NoDay =>
        LET d == day[1]
        IN  IF d \in 1..Len(Registered)
            THEN main_pc # "main" =>
                     /\ solver = Registered[d]
                     /\ input_path = "inputs/day0" \o Numeral[d + 1] \o ".txt"
                     /\ \A i \in 1..Len(files_read) : files_read[i] = input_path
            ELSE /\ solver = None
                 /\ input_path = ""
                 /\ files_read = <<>>
                 /\ pc = "idle"
                 /\ main_pc \in {"main", "solved", "returned"}
                 /\ main_pc = "main" => ENABLED SolveNotImplemented
                 /\ main_pc = "solved" =>
                        /\ result = "Day " \o Numeral[d + 1] \o " not implemented."
                        /\ ENABLED MainPrints
                 /\ main_pc = "returned" =>
                        stdout = <<"error: Day " \o Numeral[d + 1] \o " not implemented.">>

\* C13's case: main has returned from a day with no solver, its error printed.
C13_Witness ==
    /\ day = Some(10)
    /\ main_pc = "returned"
    /\ stdout = <<"error: Day 10 not implemented.">>
    /\ files_read = <<>>

\* The node a walker that started on start stands on after k steps of the
\* instruction list taken cyclically; "" once it has left the map.
RECURSIVE NodeAfter(_, _)
NodeAfter(start, k) ==
    IF k = 0
    THEN start
    ELSE LET before == NodeAfter(start, k - 1)
             instr  == steps[((k - 1) % Len(steps)) + 1]
         IN  IF before \notin DOMAIN map THEN ""
             ELSE IF instr = "L" THEN map[before][1] ELSE map[before][2]

\* Every walker started on a node ending in 'A' stands on a node ending in 'Z'
\* after exactly k steps.
AllOnZ(k) ==
    \A a \in {n \in DOMAIN map : ends_with(n, "A")} : ends_with(NodeAfter(a, k), "Z")

(* C14: simultaneous arrival.  The value parallel_steps_to_z returns is the
   smallest positive n after which all walkers stand on nodes ending in 'Z'. *)
C14_SimultaneousArrival ==
    (method.name = "parallel_steps_to_z" /\ walk_pc = "returned") =>
        /\ returned >= 1
        /\ AllOnZ(returned)
        /\ \A k \in 1..(returned - 1) : ~AllOnZ(k)

(* C15: steps_to.  The walk of steps_to follows the instruction list cyclically
   from AAA, its index into a non-empty list stays within the list, it has not
   been on the target before its current node, and the value it returns is the
   smallest n >= 0 after which the walk stands on the target. *)
C15_StepsToFirstArrival ==
    method.name = "steps_to" =>
        /\ Len(steps) > 0 => current_step \in 0..(Len(steps) - 1)
        /\ walk_pc \in {"steps_to", "returned"} =>
               /\ current_node = NodeAfter("AAA", total_steps)
               /\ \A k \in 0..(total_steps - 1) : NodeAfter("AAA", k) # method.target
        /\ walk_pc = "returned" =>
               /\ returned = total_steps
               /\ NodeAfter("AAA", returned) = method.target

\* C15's case: a walk that returned after going round the instruction list.
C15_Witness ==
    /\ method.name = "steps_to"
    /\ walk_pc = "returned"
    /\ returned > Len(steps)
    /\ NodeAfter("AAA", returned) = method.target

\* The cards from the weakest to the strongest, in normal and in joker mode.
CardsAscending(jokers) ==
    IF jokers
    THEN <<"J", "2", "3", "4", "5", "6", "7", "8", "9", "T", "Q", "K", "A">>
    ELSE <<"2", "3", "4", "5", "6", "7", "8", "9", "T", "J", "Q", "K", "A">>

\* The strength of a card: its place in CardsAscending.
Strength(card, jokers) ==
    CHOOSE i \in 1..13 : CardsAscending(jokers)[i] = card

\* The place of a hand type from HighCard = 1 to FiveOfAKind = 7, by the number
\* of kinds of card in the hand and the size of the largest group.
TypeRank(cards) ==
    LET kinds == {cards[i] : i \in 1..5}
        group(c) == Cardinality({i \in 1..5 : cards[i] = c})
        most  == CHOOSE n \in {group(c) : c \in kinds} : \A c \in kinds : group(c) <= n
    IN  CASE Cardinality(kinds) = 5 -> 1
          [] Cardinality(kinds) = 4 -> 2
          [] Cardinality(kinds) = 3 -> (IF most = 3 THEN 4 ELSE 3)
          [] Cardinality(kinds) = 2 -> (IF most = 4 THEN 6 ELSE 5)
          [] Cardinality(kinds) = 1 -> 7

\* The cards a joker of a hand is replaced with: every card of the hand, and
\* one card the hand does not hold, which stands for all of those.
Replacements(cards) ==
    LET held == {cards[i] : i \in 1..5}
    IN  held \cup {CHOOSE c \in {CardsAscending(TRUE)[i] : i \in 1..13} : c \notin held}

\* The best TypeRank among the hands obtained by replacing each joker, each on
\* its own, with a card of Replacements.
BestTypeRank(cards) ==
    LET jokers == {i \in 1..5 : cards[i] = "J"}
        ranks  == { TypeRank([i \in 1..5 |-> IF i \in jokers THEN r[i] ELSE cards[i]])
                    : r \in [jokers -> Replacements(cards)] }
    IN  CHOOSE x \in ranks : \A y \in ranks : y <= x

\* The strength of a hand: its type, then its cards' strengths in order.
HandKey(hand) ==
    <<IF hand.jokers THEN BestTypeRank(hand.cards) ELSE TypeRank(hand.cards)>>
        \o [i \in 1..5 |-> Strength(hand.cards[i], hand.jokers)]

\* Key ka is strictly below key kb: the first place where they differ decides.
KeyBelow(ka, kb) ==
    \E k \in 1..6 :
        /\ ka[k] < kb[k]
        /\ \A m \in 1..(k - 1) : ka[m] = kb[m]

\* The strengths of the hands of a list, in the list's order.
Keys(v) == [i \in 1..Len(v) |-> HandKey(v[i].hand)]

\* The bijections of 1..n onto itself.
Rankings(n) == {r \in [1..n -> 1..n] : \A i, j \in 1..n : r[i] = r[j] => i = j}

RECURSIVE SumOver(_, _, _)
SumOver(v, r, k) ==
    IF k > Len(v) THEN 0 ELSE v[k].bid * r[k] + SumOver(v, r, k + 1)

\* total is the sum of bid x rank for a ranking of v from the weakest hand up.
IsWinnings(total, v) ==
    LET keys == Keys(v)
    IN  \E r \in Rankings(Len(v)) :
            /\ \A i, j \in 1..Len(v) : KeyBelow(keys[i], keys[j]) => r[i] < r[j]
            /\ total = SumOver(v, r, 1)

\* v is in ascending strength: no hand is strictly weaker than one before it.
Ascending(v) ==
    LET keys == Keys(v)
    IN  \A i, j \in 1..Len(v) : i < j => ~KeyBelow(keys[j], keys[i])

\* The hands of a list share one joker mode.
OneMode(v) == \A i, j \in 1..Len(v) : v[i].hand.jokers = v[j].hand.jokers

\* total_winnings, from its call to its return, leaves solve's list as it was.
LeavesHands == [][(camel_pc = "sort" \/ camel_pc = "fold") => hands' = hands]_day07_vars

(* C16: camel hands.  Whenever total_winnings has sorted hands of one joker
   mode, the sorted list holds the same pairs in ascending strength (type, then
   card strengths from the first card, the jokers replaced for the type and J
   the weakest card in joker mode); the total it then prints is the sum of
   bid x rank, rank 1 for the weakest hand; and total_winnings leaves the list
   it was given as it was. *)
C16_CamelHandOrder ==
    /\ [](camel_pc = "fold" /\ OneMode(hands) =>
            /\ \E r \in Rankings(Len(hands)) :
                   \A i \in 1..Len(hands) : sorted_hands[r[i]] = hands[i]
            /\ Ascending(sorted_hands))
    /\ [](camel_pc = "wild" /\ wild_idx = 1 => IsWinnings(winnings[1], hands))
    /\ [](camel_pc = "done" => IsWinnings(winnings[2], hands))
    /\ LeavesHands

\* C16's case: the example's two totals are printed, the second over hands
\* sorted with the jokers wild.
C16_Witness ==
    /\ camel_pc = "done"
    /\ Len(hands) = 5
    /\ \A i \in 1..5 : hands[i].hand.jokers /\ hands[i].bid = ExampleHands[i].bid
    /\ winnings = <<6440, 5905>>
    /\ sorted_hands[5].hand.cards = <<"K", "T", "J", "J", "T">>

\* The digits one to nine spelled out; the place of a word is its value.
SpelledOut == <<"one", "two", "three", "four", "five", "six", "seven", "eight", "nine">>

\* The digits that occur at place p of a line (places from 1): the value of an
\* ASCII digit character there, and with words that of a word starting there.
DigitsAt(l, p, words) ==
    {d \in 0..9 : Numeral[d + 1] = SubSeq(l, p, p)}
        \cup {k \in 1..9 : /\ words
                           /\ p + Len(SpelledOut[k]) - 1 <= Len(l)
                           /\ SubSeq(l, p, p + Len(SpelledOut[k]) - 1) = SpelledOut[k]}

\* The places of a line where a digit occurs.
DigitPlaces(l, words) == {p \in 1..Len(l) : DigitsAt(l, p, words) # {}}

(* C17: calibration value.  For a line with at least one digit,
   get_calibration_value returns 10 x the first digit of the line + its last
   digit, the digits being the ASCII digit characters and, with the flag, the
   words one..nine wherever they start. *)
C17_CalibrationValue ==
    (calib_pc = "returned" /\ DigitPlaces(calib_s, include_spelled_out_numbers) # {}) =>
        LET places == DigitPlaces(calib_s, include_spelled_out_numbers)
            first  == CHOOSE p \in places : \A q \in places : p <= q
            last   == CHOOSE p \in places : \A q \in places : q <= p
        IN  \E d1 \in DigitsAt(calib_s, first, include_spelled_out_numbers),
               d2 \in DigitsAt(calib_s, last, include_spelled_out_numbers) :
                calibration = 10 * d1 + d2

\* The sum of the copies of the cards of table at the indices in S.
RECURSIVE SumCopies(_, _)
SumCopies(table, S) ==
    IF S = {} THEN 0
    ELSE LET k == CHOOSE x \in S : TRUE
         IN  table[k].copies + SumCopies(table, S \ {k})

\* The matching numbers of a card, counted without the card's methods.
Matches(card) == Cardinality(card.winners \cap card.picks)

\* The earlier cards whose wins reach card i.
Feeding(table, i) == {k \in 1..(i - 1) : i <= k + Matches(table[k])}

\* Every card's wins stay inside the table.
InsideTable(table) == \A i \in 1..Len(table) : i + Matches(table[i]) <= Len(table)

\* propagate_wins has gone past card k.
Processed(k) == k <= prop_i

\* Each step takes the same card or the next one, and leaves every processed
\* card, and the winners and picks of every card, as they are.
OnceInOrder ==
    [][/\ prop_i' \in {prop_i, prop_i + 1}
       /\ Len(card_vec') = Len(card_vec)
       /\ \A k \in 1..Len(card_vec) :
            /\ card_vec'[k].winners = card_vec[k].winners
            /\ card_vec'[k].picks = card_vec[k].picks
            /\ Processed(k) => card_vec'[k].copies = card_vec[k].copies]_day04_vars

\* C18: propagate_wins takes the cards once, in table order; on a table where
\* every i + win_count(i) stays inside the table it does not abort and returns
\* with copies[i] = 1 + the sum of copies[k] over the earlier cards k with
\* k < i <= k + win_count(k); the copies of a processed card never change.
C18_PropagateWins ==
    /\ [](InsideTable(card_vec) => prop_pc # "panic")
    /\ []((prop_pc = "returned" /\ InsideTable(card_vec)) =>
            /\ prop_i = Len(card_vec)
            /\ \A i \in 1..Len(card_vec) :
                 card_vec[i].copies = 1 + SumCopies(card_vec, Feeding(card_vec, i)))
    /\ OnceInOrder

\* The test's table after propagate_wins: 1, 2, 4, 8, 14 and 1 copies, 30 in all.
C18_Witness ==
    /\ prop_pc = "returned"
    /\ Len(card_vec) = 6
    /\ [i \in 1..6 |-> card_vec[i].copies] = <<1, 2, 4, 8, 14, 1>>
    /\ card_vec[1].winners = {41, 48, 83, 86, 17}

\* The ten digit characters.
DigitChars == {Numeral[d + 1] : d \in 0..9}

\* The grid has a cell at row r, column c (both from 0).
HasCell(grid, r, c) ==
    /\ 0 <= r /\ r < Len(grid)
    /\ 0 <= c /\ c < Len(grid[r + 1])

\* The cell (r, c) holds a digit.
DigitCell(grid, r, c) ==
    HasCell(grid, r, c) /\ SubSeq(grid[r + 1], c + 1, c + 1) \in DigitChars

\* The cell (r, c) holds a symbol: neither a digit nor '.'.
SymbolCell(grid, r, c) ==
    /\ HasCell(grid, r, c)
    /\ SubSeq(grid[r + 1], c + 1, c + 1) \notin DigitChars \cup {"."}

\* All rows have the same length.
Rectangular(grid) == \A a, b \in 1..Len(grid) : Len(grid[a]) = Len(grid[b])

\* The length of the longest row.
LongestRow(grid) ==
    IF grid = <<>> THEN 0
    ELSE CHOOSE n \in {Len(grid[a]) : a \in 1..Len(grid)} :
             \A a \in 1..Len(grid) : Len(grid[a]) <= n

\* The maximal runs of digits of the grid, each inside one row: <<row, column, length>>.
MaximalRuns(grid) ==
    UNION { { <<r, c, n>> : n \in { m \in 1..(Len(grid[r + 1]) - c) :
                                    /\ \A x \in c..(c + m - 1) : DigitCell(grid, r, x)
                                    /\ ~DigitCell(grid, r, c - 1)
                                    /\ ~DigitCell(grid, r, c + m) } }
            : r \in 0..(Len(grid) - 1), c \in 0..(LongestRow(grid) - 1) }

\* The number a string of digits denotes.
RECURSIVE Decimal(_)
Decimal(str) ==
    IF str = "" THEN 0
    ELSE LET last == SubSeq(str, Len(str), Len(str))
         IN  10 * Decimal(SubSeq(str, 1, Len(str) - 1))
             + (CHOOSE d \in 0..9 : Numeral[d + 1] = last)

\* The value of a run.
RunValue(grid, run) == Decimal(SubSeq(grid[run[1] + 1], run[2] + 1, run[2] + run[3]))

\* Some digit of the run has a symbol in one of its eight neighbouring cells.
TouchesSymbol(grid, run) ==
    \E x \in run[2]..(run[2] + run[3] - 1), dr \in -1..1, dc \in -1..1 :
        /\ <<dr, dc>> # <<0, 0>>
        /\ SymbolCell(grid, run[1] + dr, x + dc)

\* The values of the numbers from the k-th on whose runs touch a symbol.
RECURSIVE TouchingValues(_, _, _)
TouchingValues(grid, nums, k) ==
    IF k > Len(nums) THEN <<>>
    ELSE (IF TouchesSymbol(grid, <<nums[k][1], nums[k][2], nums[k][3]>>)
          THEN <<nums[k][4]>> ELSE <<>>)
         \o TouchingValues(grid, nums, k + 1)

\* C19: on a rectangular grid EngineSchematic::new records each maximal run of
\* digits inside one row as one number with the run's position, length and
\* value, and nothing else, and get_part_numbers returns exactly the values of
\* the recorded runs that have a symbol next to one of their digits,
\* horizontally, vertically or diagonally.
C19_PartNumbers ==
    (engine_pc \in {"built", "parts"} /\ Rectangular(data)) =>
        LET runs == MaximalRuns(data)
        IN  /\ {numbers[k] : k \in 1..Len(numbers)}
                 = { <<run[1], run[2], run[3], RunValue(data, run)>> : run \in runs }
            /\ Len(numbers) = Cardinality(runs)
            /\ engine_pc = "parts" => part_numbers = TouchingValues(data, numbers, 1)

\* The test's schematic: 114 and 58 are left out, the others sum to 4361.
C19_Witness ==
    /\ engine_pc = "parts"
    /\ data = ENGINE_EX_IN
    /\ Len(numbers) = 10
    /\ part_numbers = <<467, 35, 633, 617, 592, 755, 664, 598>>

\* Almanac::new has returned Ok and solve has not aborted since.
Accepted == pc \in {"part1", "part2", "done"}

\* The table the almanac stores for a pair: empty when the pair has none.
stored(pair) == IF pair \in DOMAIN maps THEN maps[pair] ELSE <<>>

\* The pairs a table can be stored or declared under.
Pairs == (DOMAIN maps) \cup (GardenResource \X GardenResource)

(* C20 as stated: for every accepted input and every pair (X, Y), the table
   stored for the pair holds exactly the rows read under an 'X-to-Y map:'
   header, in input order, the row 'D S L' as the source interval [S, S+L) with
   destination start D. *)
C20_TablesHoldTheirSections_Original ==
    Accepted =>
        \A pair \in Pairs :
            LET rows == section_rows(input, 1, FALSE, pair[1], pair[2])
            IN  /\ Len(stored(pair)) = Len(rows)
                /\ \A j \in 1..Len(rows) :
                     /\ stored(pair)[j].start = rows[j].nums[2]
                     /\ stored(pair)[j].end = rows[j].nums[2] + rows[j].nums[3]
                     /\ stored(pair)[j].dstart = rows[j].nums[1]

(* C20, amended: for every accepted input and every pair (X, Y), the table
   stored for the pair holds exactly the rows read under an 'X-to-Y map:'
   header, in input order, whichever section they were read in, and no row read
   under another header; the row 'D S L' is stored with source start S and
   destination start D, and with source end S + L when S + L is at most
   u64::MAX. *)
C20_TablesHoldTheirSections ==
    Accepted =>
        \A pair \in Pairs :
            LET rows == section_rows(input, 1, FALSE, pair[1], pair[2])
            IN  /\ Len(stored(pair)) = Len(rows)
                /\ \A j \in 1..Len(rows) :
                     /\ stored(pair)[j].start = rows[j].nums[2]
                     /\ rows[j].nums[2] + rows[j].nums[3] <= U64_MAX
                          => stored(pair)[j].end = rows[j].nums[2] + rows[j].nums[3]
                     /\ stored(pair)[j].dstart = rows[j].nums[1]

\* C20's case: the rows of the two seed-to-soil sections in one table, in input
\* order, the humidity-to-location row in its own.
C20_Witness ==
    /\ Accepted
    /\ input = REPEATED_HEADER_IN
    /\ Len(maps[<<"seed", "soil">>]) = 3
    /\ maps[<<"seed", "soil">>][2] = [start |-> 2, end |-> 3, dstart |-> 7]
    /\ Len(maps[<<"humidity", "location">>]) = 1

\* Every seed range (start, length) has start + length at most u64::MAX.
RangesFit ==
    \A k \in 1..Len(tuples(seeds_to_plant)) :
        tuples(seeds_to_plant)[k][1] + tuples(seeds_to_plant)[k][2] <= U64_MAX

(* C21 as stated: when the almanac has all seven tables and every seed range has
   start + length at most u64::MAX, every cursor update seed + step of the range
   loop, computed from a call that returned, is at most u64::MAX. *)
C21_CursorStaysInRange ==
    (Optimized /\ last_opt.step # PANIC /\ AllSevenTables /\ RangesFit)
        => last_opt.seed + last_opt.step <= U64_MAX

====
